---- MODULE Spec2Model ----
(***************************************************************************)
(* Touch-control overlay (src/src/tco.c): dispatch of multi-touch events   *)
(* to the controls of a context and tracking of which control owns which   *)
(* touch id; the configuration window in which controls are dragged; and   *)
(* loading and saving of the controls as a JSON document.                  *)
(*                                                                         *)
(* The context is built by a host that installs all six input callbacks,   *)
(* so the "if (context->m_handle...Func)" guards are modelled through      *)
(* Installed.  Timestamps are nanoseconds and never decrease.  The calls   *)
(* into the screen, png and stdio libraries succeed, except that a file    *)
(* may be absent; cJSON parses a text into the tree it was printed from.   *)
(*                                                                         *)
(* Three specifications share the variables: Spec delivers touch events    *)
(* to a context with no configuration window, ConfigSpec delivers          *)
(* navigator and screen events and so opens and closes the configuration   *)
(* window, LayoutSpec loads and saves layout files.                        *)
(***************************************************************************)
EXTENDS Integers, Sequences, FiniteSets, TLC

(* ---------------- program constants ---------------- *)
TAP_THRESHOLD == 150000000
JITTER_THRESHOLD == 10
NO_TOUCH == -1
MAX_TCO_CONTROLS == 8

(* a null pointer; a pointer that is set is the one-element sequence of what
   it points to *)
NULL == << >>

(* touchcontroloverlay.h *)
TCO_SUCCESS == "TCO_SUCCESS"
TCO_FAILURE == "TCO_FAILURE"
TCO_UNHANDLED == "TCO_UNHANDLED"
TCO_FILE_VERSION == 1

KEY == "KEY"
DPAD == "DPAD"
TOUCHAREA == "TOUCHAREA"
MOUSEBUTTON == "MOUSEBUTTON"
TOUCHSCREEN == "TOUCHSCREEN"
tco_control_type == {KEY, DPAD, TOUCHAREA, MOUSEBUTTON, TOUCHSCREEN}
UNKNOWN_TYPE == "UNKNOWN"     \* control->m_type = -1

SCREEN_EVENT_MTOUCH_TOUCH == "TOUCH"
SCREEN_EVENT_MTOUCH_MOVE == "MOVE"
SCREEN_EVENT_MTOUCH_RELEASE == "RELEASE"
TouchEventTypes ==
    {SCREEN_EVENT_MTOUCH_TOUCH, SCREEN_EVENT_MTOUCH_MOVE, SCREEN_EVENT_MTOUCH_RELEASE}

(* callbacks of struct tco_context that the host installed *)
Installed == {"key", "dpad", "touch", "mouse", "tap", "touchscreen"}

(* ---------------- bounds of the model ---------------- *)
Tick == 50000000          \* a time shorter than TAP_THRESHOLD, in ns
MaxTouchId == 1           \* touch ids 0 .. MaxTouchId

TouchIds == 0 .. MaxTouchId

(* timestamps the events carry: the elapsed times between them fall below,
   on and above TAP_THRESHOLD and 2 * TAP_THRESHOLD *)
Timestamps ==
    { 0, TAP_THRESHOLD, 2 * TAP_THRESHOLD, 2 * TAP_THRESHOLD + Tick }

(* positions the events are delivered at *)
Positions ==
    { <<5, 5>>, <<15, 5>>, <<20, 5>>, <<30, 5>>, <<5, 25>> }

(* rectangles <<x, y, width, height>>; they overlap in x 15 .. 20 *)
LeftRect == <<0, 0, 20, 20>>
RightRect == <<15, 0, 20, 20>>

(* the overlays tried, each the arguments of its tco_context_create_control
   calls in order: two overlapping controls of the types that read no
   timestamp, and a single control of each type that does *)
Overlays ==
    { << <<"key", LeftRect>>, <<"dpad", RightRect>> >>,
      << <<"dpad", LeftRect>>, <<"mousebutton", RightRect>> >>,
      << <<"mousebutton", LeftRect>>, <<"key", RightRect>> >>,
      << <<"toucharea", LeftRect>> >>,
      << <<"touchscreen", LeftRect>> >> }

VARIABLES
    m_controls,       \* ctx->m_controls[1 .. m_numControls]
    m_touch_owners,   \* ctx->m_touch_owners, head first
    event,            \* the screen event dispatched last
    touchPointOwner,  \* the control found to own its touch id, or 0
    handled,          \* what tco_context_touch_event returned for it
    emitted,          \* the callbacks it invoked, in order
    drift,            \* history: the touch each control lost by drifting
    m_configWindow,   \* ctx->m_configWindow: NULL or the window
    m_user_control_path,  \* ctx->m_user_control_path: NULL or the path
    files,            \* the file system: path -> NULL or the text of the file
    retCode,          \* what the last call of the public API returned
    fault,            \* the process died dereferencing a null pointer
    saved,            \* history: path -> NULL or the controls saved to it
    input             \* history: domain, code and touch id of the event handed
                      \* to tco_handle_events last, or NULL

touchVars ==
    <<m_touch_owners, event, touchPointOwner, handled, emitted, drift>>

vars ==
    <<m_controls, m_touch_owners, event, touchPointOwner, handled, emitted, drift,
      m_configWindow, m_user_control_path, files, retCode, fault, saved, input>>

(* a bps event: its domain, its navigator code or screen event type, and the
   properties of a touch event *)
bps_event(domain, code, touch_id, x, y, timestamp) ==
    [domain |-> domain, code |-> code, touch_id |-> touch_id,
     x |-> x, y |-> y, timestamp |-> timestamp]

(* History: what input keeps of an event. *)
InputOf(bps) ==
    IF bps = NULL THEN NULL
    ELSE <<[domain |-> bps[1].domain, code |-> bps[1].code,
            touch_id |-> bps[1].touch_id]>>

m_numControls == Len(m_controls)

abs(n) == IF n < 0 THEN -n ELSE n

(* the strcmp chain of tco_control_alloc *)
TypeOfName(controlType) ==
    CASE controlType = "key" -> KEY
      [] controlType = "dpad" -> DPAD
      [] controlType = "toucharea" -> TOUCHAREA
      [] controlType = "mousebutton" -> MOUSEBUTTON
      [] controlType = "touchscreen" -> TOUCHSCREEN
      [] OTHER -> UNKNOWN_TYPE

(* struct tco_control after tco_control_alloc (calloc zeroes m_state) *)
tco_control_alloc(id, controlType, x, y, width, height) ==
    [ m_type |-> TypeOfName(controlType), m_id |-> id,
      m_x |-> x, m_y |-> y, m_width |-> width, m_height |-> height,
      m_srcWidth |-> width, m_srcHeight |-> height,
      m_touchId |-> NO_TOUCH,
      m_label |-> NULL,
      m_properties |-> <<0, 0, 0, 0>>,
      m_last_x |-> 0, m_last_y |-> 0, m_touchDownTime |-> 0,
      m_start_x |-> 0, m_start_y |-> 0, m_touchScreenStartTime |-> 0,
      m_touchScreenInMoveEvent |-> FALSE,
      m_touchScreenInHoldEvent |-> FALSE ]

(* tco_control_in_bounds that leaves the right and the bottom edge out *)
tco_control_in_bounds_HalfOpen(control, x, y) ==
    /\ x >= control.m_x
    /\ x < control.m_x + control.m_width
    /\ y >= control.m_y
    /\ y < control.m_y + control.m_height

tco_control_in_bounds(control, x, y) ==
    /\ x >= control.m_x
    /\ x <= control.m_x + control.m_width
    /\ y >= control.m_y
    /\ y <= control.m_y + control.m_height

(* one invocation of an input callback by control i *)
Invoke(cb, i, ev, a, b, tap, hold) ==
    << [cb |-> cb, ctl |-> i, event |-> ev, a |-> a, b |-> b,
        tap |-> tap, hold |-> hold] >>

(* if(context->m_handle...Func) { context->m_handle...Func(...); } *)
Call(cb, i, ev, a, b, tap, hold) ==
    IF cb \in Installed THEN Invoke(cb, i, ev, a, b, tap, hold) ELSE << >>

(* DPadCall that measures from the top left corner of the control *)
DPadCall_FromCorner(control, i, x, y, ev) ==
    Call("dpad", i, ev, 2 * (y - control.m_y), 2 * (x - control.m_x), 0, 0)

(* the two arguments of atan2 in the DPAD branches, doubled to stay integral *)
DPadCall(control, i, x, y, ev) ==
    Call("dpad", i, ev,
         2 * (y - control.m_y) - control.m_height,
         2 * (x - control.m_x) - control.m_width, 0, 0)

Result(control, ret, out) == [control |-> control, ret |-> ret, out |-> out]

(* a new touch point starts being handled: m_touchId and the first switch *)
NewTouchAccept(control, i, touchId, x, y, timestamp) ==
    LET c == [control EXCEPT !.m_touchId = touchId] IN
    CASE c.m_type = KEY ->
           Result(c, TRUE, Call("key", i, "DOWN", 0, 0, 0, 0))
      [] c.m_type = DPAD ->
           Result(c, TRUE, DPadCall(c, i, x, y, "DOWN"))
      [] c.m_type = TOUCHAREA ->
           Result([c EXCEPT !.m_touchDownTime = timestamp,
                            !.m_last_x = x, !.m_last_y = y],
                  TRUE, << >>)
      [] c.m_type = MOUSEBUTTON ->
           Result(c, TRUE, Call("mouse", i, "DOWN", 0, 0, 0, 0))
      [] c.m_type = TOUCHSCREEN ->
           Result([c EXCEPT !.m_start_x = x, !.m_start_y = y,
                            !.m_touchScreenStartTime = timestamp],
                  TRUE, << >>)
      [] OTHER -> Result(c, TRUE, << >>)

(* NewTouch that starts handling a touch point on a touch-down only *)
NewTouch_TouchDownOnly(control, i, type, touchId, x, y, timestamp) ==
    IF type # SCREEN_EVENT_MTOUCH_TOUCH
    THEN Result(control, FALSE, << >>)
    ELSE IF ~tco_control_in_bounds(control, x, y)
    THEN Result(control, FALSE, << >>)
    ELSE NewTouchAccept(control, i, touchId, x, y, timestamp)

(* tco_control_handle_touch, control->m_touchId == -1 *)
NewTouch(control, i, type, touchId, x, y, timestamp) ==
    IF type = SCREEN_EVENT_MTOUCH_RELEASE
    THEN Result(control, FALSE, << >>)
    ELSE IF ~tco_control_in_bounds(control, x, y)
    THEN Result(control, FALSE, << >>)
    ELSE NewTouchAccept(control, i, touchId, x, y, timestamp)

(* OutOfBoundsState whose TOUCHSCREEN case leaves the two flags as they are *)
OutOfBoundsState_KeepsFlags(control, x, y) ==
    LET dx == x - control.m_last_x
        dy == y - control.m_last_y
    IN  CASE control.m_type = TOUCHAREA ->
               IF "touch" \in Installed /\ (dx # 0 \/ dy # 0)
               THEN [control EXCEPT !.m_last_x = x, !.m_last_y = y]
               ELSE control
          [] OTHER -> control

(* the switch of the out-of-bounds branch: what it writes to m_state *)
OutOfBoundsState(control, x, y) ==
    LET dx == x - control.m_last_x
        dy == y - control.m_last_y
    IN  CASE control.m_type = TOUCHAREA ->
               IF "touch" \in Installed /\ (dx # 0 \/ dy # 0)
               THEN [control EXCEPT !.m_last_x = x, !.m_last_y = y]
               ELSE control
          [] control.m_type = TOUCHSCREEN ->
               [control EXCEPT !.m_touchScreenInHoldEvent = FALSE,
                               !.m_touchScreenInMoveEvent = FALSE]
          [] OTHER -> control

(* the switch of the out-of-bounds branch: the callbacks it invokes *)
OutOfBoundsCalls(control, i, x, y) ==
    LET dx == x - control.m_last_x
        dy == y - control.m_last_y
    IN  CASE control.m_type = KEY -> Call("key", i, "UP", 0, 0, 0, 0)
          [] control.m_type = DPAD -> DPadCall(control, i, x, y, "UP")
          [] control.m_type = TOUCHAREA ->
               IF dx # 0 \/ dy # 0
               THEN Call("touch", i, "", dx, dy, 0, 0)
               ELSE << >>
          [] control.m_type = MOUSEBUTTON -> Call("mouse", i, "UP", 0, 0, 0, 0)
          [] OTHER -> << >>

(* OutOfBounds that treats a release outside the rectangle as an orphaned
   release and reports nothing *)
OutOfBounds_DropsRelease(control, i, type, touchId, x, y, timestamp) ==
    Result([OutOfBoundsState(control, x, y) EXCEPT !.m_touchId = NO_TOUCH],
           FALSE,
           IF type = SCREEN_EVENT_MTOUCH_RELEASE
           THEN << >>
           ELSE OutOfBoundsCalls(control, i, x, y))

(* OutOfBounds that forgets control->m_touchId = -1 *)
OutOfBounds_KeepsTouchId(control, i, type, touchId, x, y, timestamp) ==
    Result(OutOfBoundsState(control, x, y), FALSE,
           OutOfBoundsCalls(control, i, x, y))

(* tco_control_handle_touch, owned by touchId and the point is out of bounds *)
OutOfBounds(control, i, type, touchId, x, y, timestamp) ==
    Result([OutOfBoundsState(control, x, y) EXCEPT !.m_touchId = NO_TOUCH],
           FALSE, OutOfBoundsCalls(control, i, x, y))

(* case KEY of the in-bounds switch, with a key-down on every event that is
   not a release *)
KeyInBounds_Repeats(control, i, type) ==
    Result(control, TRUE,
           IF type = SCREEN_EVENT_MTOUCH_RELEASE
           THEN Call("key", i, "UP", 0, 0, 0, 0)
           ELSE Call("key", i, "DOWN", 0, 0, 0, 0))

(* case KEY of the in-bounds switch *)
KeyInBounds(control, i, type) ==
    Result(control, TRUE,
           IF type = SCREEN_EVENT_MTOUCH_RELEASE
           THEN Call("key", i, "UP", 0, 0, 0, 0)
           ELSE << >>)

(* case DPAD of the in-bounds switch *)
DPadInBounds(control, i, type, x, y) ==
    Result(control, TRUE,
           DPadCall(control, i, x, y,
                    IF type = SCREEN_EVENT_MTOUCH_RELEASE THEN "UP" ELSE "DOWN"))

(* case MOUSEBUTTON of the in-bounds switch, with a button-up on every
   event *)
MouseButtonInBounds_AlwaysUp(control, i, type) ==
    Result(control, TRUE, Call("mouse", i, "UP", 0, 0, 0, 0))

(* case MOUSEBUTTON of the in-bounds switch *)
MouseButtonInBounds(control, i, type) ==
    Result(control, TRUE,
           IF type = SCREEN_EVENT_MTOUCH_RELEASE
           THEN Call("mouse", i, "UP", 0, 0, 0, 0)
           ELSE << >>)

(* the tap test of case TOUCHAREA, with <= for < *)
TouchAreaTap_AtThreshold(control, type, timestamp) ==
    /\ type = SCREEN_EVENT_MTOUCH_RELEASE
    /\ (timestamp - control.m_touchDownTime) <= TAP_THRESHOLD

(* the tap test of case TOUCHAREA *)
TouchAreaTap(control, type, timestamp) ==
    /\ type = SCREEN_EVENT_MTOUCH_RELEASE
    /\ (timestamp - control.m_touchDownTime) < TAP_THRESHOLD

(* case TOUCHAREA of the in-bounds switch, measuring every motion from the
   point where the touch was accepted *)
TouchAreaInBounds_FixedAnchor(control, i, type, x, y, timestamp) ==
    IF "touch" \notin Installed
    THEN Result(control, TRUE, << >>)
    ELSE IF TouchAreaTap(control, type, timestamp)
    THEN Result(control, TRUE, Invoke("tap", i, "", 0, 0, 0, 0))
    ELSE LET c  == IF type = SCREEN_EVENT_MTOUCH_TOUCH
                   THEN [control EXCEPT !.m_touchDownTime = timestamp]
                   ELSE control
             dx == x - c.m_last_x
             dy == y - c.m_last_y
         IN  IF dx # 0 \/ dy # 0
             THEN Result(c, TRUE, Invoke("touch", i, "", dx, dy, 0, 0))
             ELSE Result(c, TRUE, << >>)

(* case TOUCHAREA of the in-bounds switch *)
TouchAreaInBounds(control, i, type, x, y, timestamp) ==
    IF "touch" \notin Installed
    THEN Result(control, TRUE, << >>)
    ELSE IF TouchAreaTap(control, type, timestamp)
    THEN Result(control, TRUE, Invoke("tap", i, "", 0, 0, 0, 0))
    ELSE LET c  == IF type = SCREEN_EVENT_MTOUCH_TOUCH
                   THEN [control EXCEPT !.m_touchDownTime = timestamp]
                   ELSE control
             dx == x - c.m_last_x
             dy == y - c.m_last_y
         IN  IF dx # 0 \/ dy # 0
             THEN Result([c EXCEPT !.m_last_x = x, !.m_last_y = y], TRUE,
                         Invoke("touch", i, "", dx, dy, 0, 0))
             ELSE Result(c, TRUE, << >>)

(* int distance = abs(x - m_start_x) + abs(y - m_start_y) *)
distance(control, x, y) ==
    abs(x - control.m_start_x) + abs(y - control.m_start_y)

(* the tap test of case TOUCHSCREEN, with <= for the jitter test *)
TouchScreenTap_AtJitter(control, type, x, y, timestamp) ==
    /\ type = SCREEN_EVENT_MTOUCH_RELEASE
    /\ (timestamp - control.m_touchScreenStartTime) < TAP_THRESHOLD
    /\ distance(control, x, y) <= JITTER_THRESHOLD

(* the tap test of case TOUCHSCREEN, at any touch event *)
TouchScreenTap_AtAnyEvent(control, type, x, y, timestamp) ==
    /\ (timestamp - control.m_touchScreenStartTime) < TAP_THRESHOLD
    /\ distance(control, x, y) < JITTER_THRESHOLD

(* the tap test of case TOUCHSCREEN *)
TouchScreenTap(control, type, x, y, timestamp) ==
    /\ type = SCREEN_EVENT_MTOUCH_RELEASE
    /\ (timestamp - control.m_touchScreenStartTime) < TAP_THRESHOLD
    /\ distance(control, x, y) < JITTER_THRESHOLD

(* the move test of case TOUCHSCREEN, without the move-mode flag *)
TouchScreenMove_ByDistanceOnly(control, type, x, y) ==
    /\ type = SCREEN_EVENT_MTOUCH_MOVE
    /\ distance(control, x, y) > JITTER_THRESHOLD

(* the move test of case TOUCHSCREEN *)
TouchScreenMove(control, type, x, y) ==
    /\ type = SCREEN_EVENT_MTOUCH_MOVE
    /\ (control.m_touchScreenInMoveEvent \/
        distance(control, x, y) > JITTER_THRESHOLD)

(* the hold test of case TOUCHSCREEN *)
TouchScreenHold(control, type, timestamp) ==
    /\ type = SCREEN_EVENT_MTOUCH_MOVE
    /\ ~control.m_touchScreenInMoveEvent
    /\ (timestamp - control.m_touchScreenStartTime) > 2 * TAP_THRESHOLD

(* the guard around the touch screen tests, without the hold flag *)
TouchScreenActive_IgnoresHold(control) ==
    "touchscreen" \in Installed

(* if(m_handleTouchScreenFunc) ... if (!m_touchScreenInHoldEvent) *)
TouchScreenActive(control) ==
    "touchscreen" \in Installed /\ ~control.m_touchScreenInHoldEvent

(* case TOUCHSCREEN of the in-bounds switch *)
TouchScreenInBounds(control, i, type, x, y, timestamp) ==
    IF ~TouchScreenActive(control)
    THEN Result(control, TRUE, << >>)
    ELSE IF TouchScreenTap(control, type, x, y, timestamp)
    THEN Result(control, TRUE, Invoke("touchscreen", i, "", x, y, 1, 0))
    ELSE IF TouchScreenMove(control, type, x, y)
    THEN Result([control EXCEPT !.m_touchScreenInMoveEvent = TRUE], TRUE,
                Invoke("touchscreen", i, "", x, y, 0, 0))
    ELSE IF TouchScreenHold(control, type, timestamp)
    THEN Result([control EXCEPT !.m_touchScreenInHoldEvent = TRUE], TRUE,
                Invoke("touchscreen", i, "", x, y, 0, 1))
    ELSE Result(control, TRUE, << >>)

(* the switch of the in-bounds branch *)
InBoundsSwitch(control, i, type, x, y, timestamp) ==
    CASE control.m_type = KEY -> KeyInBounds(control, i, type)
      [] control.m_type = DPAD -> DPadInBounds(control, i, type, x, y)
      [] control.m_type = TOUCHAREA ->
           TouchAreaInBounds(control, i, type, x, y, timestamp)
      [] control.m_type = MOUSEBUTTON -> MouseButtonInBounds(control, i, type)
      [] control.m_type = TOUCHSCREEN ->
           TouchScreenInBounds(control, i, type, x, y, timestamp)
      [] OTHER -> Result(control, TRUE, << >>)

(* InBounds that reports a release it processed as handled *)
InBounds_ReleaseHandled(control, i, type, touchId, x, y, timestamp) ==
    LET r == InBoundsSwitch(control, i, type, x, y, timestamp)
    IN  IF type = SCREEN_EVENT_MTOUCH_RELEASE
        THEN Result([r.control EXCEPT !.m_touchId = NO_TOUCH,
                                      !.m_touchScreenInHoldEvent = FALSE,
                                      !.m_touchScreenInMoveEvent = FALSE],
                    TRUE, r.out)
        ELSE r

(* InBounds that leaves m_touchId as it is at a release *)
InBounds_ReleaseKeepsTouchId(control, i, type, touchId, x, y, timestamp) ==
    LET r == InBoundsSwitch(control, i, type, x, y, timestamp)
    IN  IF type = SCREEN_EVENT_MTOUCH_RELEASE
        THEN Result([r.control EXCEPT !.m_touchScreenInHoldEvent = FALSE,
                                      !.m_touchScreenInMoveEvent = FALSE],
                    FALSE, r.out)
        ELSE r

(* tco_control_handle_touch, owned by touchId and the point is in bounds *)
InBounds(control, i, type, touchId, x, y, timestamp) ==
    LET r == InBoundsSwitch(control, i, type, x, y, timestamp)
    IN  IF type = SCREEN_EVENT_MTOUCH_RELEASE
        THEN Result([r.control EXCEPT !.m_touchId = NO_TOUCH,
                                      !.m_touchScreenInHoldEvent = FALSE,
                                      !.m_touchScreenInMoveEvent = FALSE],
                    FALSE, r.out)
        ELSE r

(* tco_control_handle_touch that lets the release of any contact point end
   the one the control is handling *)
tco_control_handle_touch_AnyRelease(control, i, type, touchId, x, y, timestamp) ==
    IF /\ control.m_touchId # NO_TOUCH
       /\ control.m_touchId # touchId
       /\ type # SCREEN_EVENT_MTOUCH_RELEASE
    THEN Result(control, FALSE, << >>)
    ELSE IF control.m_touchId = NO_TOUCH
    THEN NewTouch(control, i, type, touchId, x, y, timestamp)
    ELSE IF ~tco_control_in_bounds(control, x, y)
    THEN OutOfBounds(control, i, type, touchId, x, y, timestamp)
    ELSE InBounds(control, i, type, touchId, x, y, timestamp)

(* tco_control_handle_touch without the test for another contact point *)
tco_control_handle_touch_AnyTouchId(control, i, type, touchId, x, y, timestamp) ==
    IF control.m_touchId = NO_TOUCH
    THEN NewTouch(control, i, type, touchId, x, y, timestamp)
    ELSE IF ~tco_control_in_bounds(control, x, y)
    THEN OutOfBounds(control, i, type, touchId, x, y, timestamp)
    ELSE InBounds(control, i, type, touchId, x, y, timestamp)

tco_control_handle_touch(control, i, type, touchId, x, y, timestamp) ==
    IF control.m_touchId # NO_TOUCH /\ control.m_touchId # touchId
    THEN Result(control, FALSE, << >>)
    ELSE IF control.m_touchId = NO_TOUCH
    THEN NewTouch(control, i, type, touchId, x, y, timestamp)
    ELSE IF ~tco_control_in_bounds(control, x, y)
    THEN OutOfBounds(control, i, type, touchId, x, y, timestamp)
    ELSE InBounds(control, i, type, touchId, x, y, timestamp)

(* ---------------- the context ---------------- *)

touch_owner(control, touch_id) == [control |-> control, touch_id |-> touch_id]

(* SLIST_FOREACH ... break: position of the first entry for touch_id, or 0 *)
FindOwner(owners, touch_id) ==
    IF \E p \in 1 .. Len(owners) : owners[p].touch_id = touch_id
    THEN CHOOSE p \in 1 .. Len(owners) :
            /\ owners[p].touch_id = touch_id
            /\ \A q \in 1 .. (p - 1) : owners[q].touch_id # touch_id
    ELSE 0

SLIST_REMOVE(owners, p) ==
    [q \in 1 .. (Len(owners) - 1) |-> IF q < p THEN owners[q] ELSE owners[q + 1]]

(* SLIST_INSERT_HEAD that replaces the head of a list that has one *)
SLIST_INSERT_HEAD_Replaces(owners, entry) ==
    IF owners = << >> THEN <<entry>> ELSE <<entry>> \o Tail(owners)

SLIST_INSERT_HEAD(owners, entry) == <<entry>> \o owners

(* ScanControls without the break: the controls after the one that handled
   the event are tried as well and the last one to handle it is reported *)
RECURSIVE ScanControls_NoBreak(_, _, _, _, _, _, _, _, _)
ScanControls_NoBreak(controls, i, owner, type, touch_id, x, y, timestamp, out) ==
    IF i > Len(controls)
    THEN [controls |-> controls, claimed |-> 0, out |-> out]
    ELSE IF i = owner
    THEN ScanControls_NoBreak(controls, i + 1, owner,
                              type, touch_id, x, y, timestamp, out)
    ELSE LET r == tco_control_handle_touch(controls[i], i, type, touch_id,
                                           x, y, timestamp)
             cs == [controls EXCEPT ![i] = r.control]
             rest == ScanControls_NoBreak(cs, i + 1, owner, type, touch_id,
                                          x, y, timestamp, out \o r.out)
         IN  IF r.ret /\ rest.claimed = 0
             THEN [rest EXCEPT !.claimed = i]
             ELSE rest

(* the for loop of tco_context_touch_event from index i on; claimed is the
   index of the control that handled the event, or 0 *)
RECURSIVE ScanControls(_, _, _, _, _, _, _, _, _)
ScanControls(controls, i, owner, type, touch_id, x, y, timestamp, out) ==
    IF i > Len(controls)
    THEN [controls |-> controls, claimed |-> 0, out |-> out]
    ELSE IF i = owner
    THEN ScanControls(controls, i + 1, owner,
                      type, touch_id, x, y, timestamp, out)
    ELSE LET r == tco_control_handle_touch(controls[i], i, type, touch_id,
                                           x, y, timestamp)
             cs == [controls EXCEPT ![i] = r.control]
         IN  IF r.ret
             THEN [controls |-> cs, claimed |-> i, out |-> out \o r.out]
             ELSE ScanControls(cs, i + 1, owner,
                               type, touch_id, x, y, timestamp, out \o r.out)

(* OwnerStep that leaves the entry of an owner that no longer handles the
   touch id in the list *)
OwnerStep_KeepsEntry(controls, owners, type, touch_id, x, y, timestamp) ==
    LET p == FindOwner(owners, touch_id) IN
    IF p = 0
    THEN [controls |-> controls, owners |-> owners, owner |-> 0,
          handled |-> FALSE, out |-> << >>]
    ELSE LET o == owners[p].control
             r == tco_control_handle_touch(controls[o], o, type, touch_id,
                                           x, y, timestamp)
         IN  [controls |-> [controls EXCEPT ![o] = r.control],
              owners   |-> owners,
              owner    |-> o,
              handled  |-> r.ret,
              out      |-> r.out]

(* if (touchPointOwner) { handled = ...; if (!handled) SLIST_REMOVE } *)
OwnerStep(controls, owners, type, touch_id, x, y, timestamp) ==
    LET p == FindOwner(owners, touch_id) IN
    IF p = 0
    THEN [controls |-> controls, owners |-> owners, owner |-> 0,
          handled |-> FALSE, out |-> << >>]
    ELSE LET o == owners[p].control
             r == tco_control_handle_touch(controls[o], o, type, touch_id,
                                           x, y, timestamp)
         IN  [controls |-> [controls EXCEPT ![o] = r.control],
              owners   |-> IF r.ret THEN owners ELSE SLIST_REMOVE(owners, p),
              owner    |-> o,
              handled  |-> r.ret,
              out      |-> r.out]

(* FallbackStep that tries the other controls only for a touch id that had no
   owner *)
FallbackStep_OnlyWithoutOwner(s, type, touch_id, x, y, timestamp) ==
    IF s.handled \/ s.owner # 0
    THEN s
    ELSE LET r == ScanControls(s.controls, 1, s.owner, type, touch_id,
                               x, y, timestamp, s.out)
         IN  [controls |-> r.controls,
              owners   |-> IF r.claimed # 0
                           THEN SLIST_INSERT_HEAD(s.owners,
                                                  touch_owner(r.claimed, touch_id))
                           ELSE s.owners,
              owner    |-> s.owner,
              handled  |-> r.claimed # 0,
              out      |-> r.out]

(* if (!handled) { for (...) ... SLIST_INSERT_HEAD ... break; } *)
FallbackStep(s, type, touch_id, x, y, timestamp) ==
    IF s.handled
    THEN s
    ELSE LET r == ScanControls(s.controls, 1, s.owner, type, touch_id,
                               x, y, timestamp, s.out)
         IN  [controls |-> r.controls,
              owners   |-> IF r.claimed # 0
                           THEN SLIST_INSERT_HEAD(s.owners,
                                                  touch_owner(r.claimed, touch_id))
                           ELSE s.owners,
              owner    |-> s.owner,
              handled  |-> r.claimed # 0,
              out      |-> r.out]

Dispatch(controls, owners, type, touch_id, x, y, timestamp) ==
    FallbackStep(OwnerStep(controls, owners, type, touch_id, x, y, timestamp),
                 type, touch_id, x, y, timestamp)

(* History, not program state: the control that lost a touch id by a move
   out of its rectangle, that touch id, and whether the control had reported a
   hold or entered move mode for it.  It is kept while the events that follow
   are moves of the same touch id and forgotten at any other event. *)
NoDrift == [control |-> 0, touch_id |-> NO_TOUCH, held |-> FALSE, moved |-> FALSE]

Drifting(before, after, touch_id) ==
    { i \in DOMAIN before :
        before[i].m_touchId = touch_id /\ after[i].m_touchId = NO_TOUCH }

DriftAfter(g, before, after, type, touch_id) ==
    IF type # SCREEN_EVENT_MTOUCH_MOVE
    THEN NoDrift
    ELSE IF Drifting(before, after, touch_id) # {}
    THEN LET i == CHOOSE i \in Drifting(before, after, touch_id) : TRUE
             same == g.control = i /\ g.touch_id = touch_id
         IN  [control |-> i, touch_id |-> touch_id,
              held  |-> before[i].m_touchScreenInHoldEvent \/ (same /\ g.held),
              moved |-> before[i].m_touchScreenInMoveEvent \/ (same /\ g.moved)]
    ELSE IF g.touch_id # touch_id THEN NoDrift ELSE g

(* one touch event delivered while no configuration window is shown *)
tco_context_touch_event(type, touch_id, x, y, timestamp) ==
    \E r \in {Dispatch(m_controls, m_touch_owners, type, touch_id, x, y, timestamp)} :
        /\ m_controls' = r.controls
        /\ m_touch_owners' = r.owners
        /\ touchPointOwner' = r.owner
        /\ handled' = r.handled
        /\ emitted' = r.out
        /\ event' = [type |-> type, touch_id |-> touch_id, x |-> x, y |-> y,
                     timestamp |-> timestamp]
        /\ drift' = DriftAfter(drift, m_controls, r.controls, type, touch_id)

(* tco_context_alloc followed by tco_context_create_control for each control
   of a layout *)
Init ==
    /\ \E o \in Overlays :
          m_controls =
              [i \in 1 .. Len(o) |->
                  tco_control_alloc(i, o[i][1], o[i][2][1], o[i][2][2],
                                    o[i][2][3], o[i][2][4])]
    /\ m_touch_owners = << >>
    /\ event = [type |-> "NONE", touch_id |-> NO_TOUCH, x |-> 0, y |-> 0,
                timestamp |-> 0]
    /\ touchPointOwner = 0
    /\ handled = FALSE
    /\ emitted = << >>
    /\ drift = NoDrift
    /\ m_configWindow = NULL
    /\ m_user_control_path = NULL
    /\ files = [p \in {} |-> NULL]
    /\ retCode = TCO_SUCCESS
    /\ fault = FALSE
    /\ saved = [p \in {} |-> NULL]
    /\ input = NULL

(* tco_handle_events for a touch event while no configuration window is
   shown *)
Next ==
    \E type \in TouchEventTypes, touch_id \in TouchIds, pos \in Positions,
       timestamp \in Timestamps :
        /\ timestamp >= event.timestamp
        /\ tco_context_touch_event(type, touch_id, pos[1], pos[2], timestamp)
        /\ retCode' = IF handled' THEN TCO_SUCCESS ELSE TCO_UNHANDLED
        /\ input' = InputOf(<<bps_event("screen", type, touch_id, pos[1],
                                        pos[2], timestamp)>>)
        /\ UNCHANGED <<m_configWindow, m_user_control_path, files, fault, saved>>

Spec == Init /\ [][Next]_vars

(* ---------------- JSON ---------------- *)
(* A cJSON item is its type and its value: a number, a string, for an object
   the function from the names of its members to their items, for an array
   the sequence of its items.  A text that cJSON_Print wrote is kept as the
   tree it renders, which cJSON_Parse gives back; NotJSON is a text that
   cJSON_Parse rejects. *)
cJSON_Number == "Number"
cJSON_String == "String"
cJSON_Array == "Array"
cJSON_Object == "Object"
NotJSON == <<"garbage">>

cJSON_Parse(text) == IF text[1] = "json" THEN <<text[2]>> ELSE NULL

cJSON_Print(root) == <<"json", root>>

cJSON_CreateObject == [type |-> cJSON_Object, v |-> [n \in {} |-> 0]]

cJSON_CreateArray == [type |-> cJSON_Array, v |-> << >>]

cJSON_CreateNumber(value) == [type |-> cJSON_Number, v |-> value]

cJSON_CreateString(value) == [type |-> cJSON_String, v |-> value]

cJSON_AddItemToObject(object, name, item) ==
    [object EXCEPT !.v = (name :> item) @@ @]

cJSON_AddItemToArray(array, item) == [array EXCEPT !.v = Append(@, item)]

cJSON_GetObjectItem(object, name) ==
    IF object.type = cJSON_Object /\ name \in DOMAIN object.v
    THEN <<object.v[name]>>
    ELSE NULL

tco_json_get_int(object, name) ==
    LET value == cJSON_GetObjectItem(object, name)
    IN  IF value # NULL /\ value[1].type = cJSON_Number
        THEN value[1].v
        ELSE 0

tco_json_set_int(object, name, value) ==
    cJSON_AddItemToObject(object, name, cJSON_CreateNumber(value))

(* NULL or the string *)
tco_json_get_str(object, name) ==
    LET value == cJSON_GetObjectItem(object, name)
    IN  IF value # NULL /\ value[1].type = cJSON_String
        THEN <<value[1].v>>
        ELSE NULL

tco_json_set_str(object, name, value) ==
    cJSON_AddItemToObject(object, name, cJSON_CreateString(value))

(* tco_read_text_file: NULL for no name, an empty name or a file that cannot
   be opened *)
tco_read_text_file(fs, fileName) ==
    IF fileName = NULL \/ fileName[1] = ""
    THEN NULL
    ELSE IF fileName[1] \in DOMAIN fs THEN fs[fileName[1]] ELSE NULL

(* struct tco_label after tco_label_alloc; m_alpha is the alpha of its label
   window *)
tco_label_alloc(x, y, width, height, alpha, image) ==
    [ m_x |-> x, m_y |-> y, m_width |-> width, m_height |-> height,
      m_alpha |-> alpha, m_image_file |-> image ]

(* ---------------- saving ---------------- *)
(* the type name tco_context_save_controls writes *)
NameOfType(m_type) ==
    CASE m_type = KEY -> "key"
      [] m_type = DPAD -> "dpad"
      [] m_type = MOUSEBUTTON -> "mousebutton"
      [] m_type = TOUCHAREA -> "toucharea"
      [] m_type = TOUCHSCREEN -> "touchscreen"
      [] OTHER -> "unknown"

(* the switch of tco_context_save_controls; m_properties is a union, so
   mouse.m_mask and touch.m_tapSensitive share the first int with
   key.m_symbol, and mouse.m_button the second with key.m_modifier *)
SaveProperties(json_control, control) ==
    LET typed == tco_json_set_str(json_control, "type", NameOfType(control.m_type))
        p == control.m_properties
    IN  CASE control.m_type = KEY ->
               tco_json_set_int(
                 tco_json_set_int(
                   tco_json_set_int(
                     tco_json_set_int(typed, "symbol", p[1]),
                     "modifier", p[2]),
                   "scancode", p[3]),
                 "unicode", p[4])
          [] control.m_type = MOUSEBUTTON ->
               tco_json_set_int(tco_json_set_int(typed, "button", p[2]),
                                "mask", p[1])
          [] control.m_type = TOUCHAREA ->
               tco_json_set_int(typed, "tapSensitive", p[1])
          [] OTHER -> typed

SaveRectangle(json_control, control) ==
    tco_json_set_int(
      tco_json_set_int(
        tco_json_set_int(
          tco_json_set_int(
            tco_json_set_int(json_control, "id", control.m_id),
            "x", control.m_x),
          "y", control.m_y),
        "width", control.m_width),
      "height", control.m_height)

(* the label object without its image *)
SaveLabel_DropsImage(m_label) ==
    tco_json_set_int(
      tco_json_set_int(
        tco_json_set_int(
          tco_json_set_int(
            tco_json_set_int(cJSON_CreateObject, "x", m_label.m_x),
            "y", m_label.m_y),
          "width", m_label.m_width),
        "height", m_label.m_height),
      "alpha", m_label.m_alpha)

(* the label object of tco_context_save_controls *)
SaveLabel(m_label) ==
    LET l == tco_json_set_int(
               tco_json_set_int(
                 tco_json_set_int(
                   tco_json_set_int(
                     tco_json_set_int(cJSON_CreateObject, "x", m_label.m_x),
                     "y", m_label.m_y),
                   "width", m_label.m_width),
                 "height", m_label.m_height),
               "alpha", m_label.m_alpha)
    IN  IF m_label.m_image_file # NULL
        THEN tco_json_set_str(l, "image", m_label.m_image_file[1])
        ELSE l

(* the body of the for loop of tco_context_save_controls *)
SaveControl(control) ==
    LET json_control ==
            SaveRectangle(SaveProperties(cJSON_CreateObject, control), control)
    IN  IF control.m_label # NULL
        THEN cJSON_AddItemToObject(json_control, "label",
                                   SaveLabel(control.m_label[1]))
        ELSE json_control

(* the root tco_context_save_controls builds *)
SaveRoot(controls) ==
    cJSON_AddItemToObject(
        tco_json_set_int(cJSON_CreateObject, "version", TCO_FILE_VERSION),
        "controls",
        [type |-> cJSON_Array,
         v |-> [i \in 1 .. Len(controls) |-> SaveControl(controls[i])]])

(* const char * filePath, with the two arguments exchanged *)
SavePath_IgnoresArgument(user_fileName, path) ==
    IF path = NULL THEN user_fileName ELSE path

(* const char * filePath of tco_context_save_controls *)
SavePath(user_fileName, path) ==
    IF user_fileName = NULL THEN path ELSE user_fileName

(* fopen(filePath, "w") and fwrite: an empty name cannot be opened *)
WriteFile(fs, filePath, text) ==
    IF filePath[1] = "" THEN fs ELSE (filePath[1] :> <<text>>) @@ fs

(* tco_context_save_controls: the file system afterwards and the value
   returned *)
tco_context_save_controls(controls, path, fs, user_fileName) ==
    LET filePath == SavePath(user_fileName, path)
    IN  IF filePath = NULL
        THEN [files |-> fs, retCode |-> TCO_SUCCESS, filePath |-> NULL]
        ELSE [files |-> WriteFile(fs, filePath, cJSON_Print(SaveRoot(controls))),
              retCode |-> TCO_SUCCESS, filePath |-> filePath]

(* ---------------- loading ---------------- *)
(* the switch of tco_context_load_controls on c->m_type *)
LoadProperties(c, control) ==
    CASE c.m_type = KEY ->
           [c EXCEPT !.m_properties =
               << tco_json_get_int(control, "symbol"),
                  tco_json_get_int(control, "modifier"),
                  tco_json_get_int(control, "scancode"),
                  tco_json_get_int(control, "unicode") >>]
      [] c.m_type = TOUCHAREA ->
           [c EXCEPT !.m_properties[1] = tco_json_get_int(control, "tapSensitive")]
      [] c.m_type = MOUSEBUTTON ->
           [c EXCEPT !.m_properties[1] = tco_json_get_int(control, "mask"),
                     !.m_properties[2] = tco_json_get_int(control, "button")]
      [] OTHER -> c

(* the label of a control description *)
LoadLabel(c, control) ==
    LET label == cJSON_GetObjectItem(control, "label")
    IN  IF label # NULL /\ label[1].type = cJSON_Object
        THEN [c EXCEPT !.m_label =
                 << tco_label_alloc(tco_json_get_int(label[1], "x"),
                                    tco_json_get_int(label[1], "y"),
                                    tco_json_get_int(label[1], "width"),
                                    tco_json_get_int(label[1], "height"),
                                    tco_json_get_int(label[1], "alpha"),
                                    tco_json_get_str(label[1], "image")) >>]
        ELSE c

(* tco_context_create_control without the test of m_numControls *)
tco_context_create_control_NoLimit(controls, id, controlType, x, y, width, height) ==
    [controls |-> Append(controls,
                         tco_control_alloc(id, controlType, x, y, width, height)),
     c |-> Len(controls) + 1]

(* tco_context_create_control: the controls afterwards and the index of the
   control returned, 0 for the NULL of a context that is full *)
tco_context_create_control(controls, id, controlType, x, y, width, height) ==
    IF Len(controls) >= MAX_TCO_CONTROLS
    THEN [controls |-> controls, c |-> 0]
    ELSE [controls |-> Append(controls,
                              tco_control_alloc(id, controlType, x, y, width,
                                                height)),
          c |-> Len(controls) + 1]

(* one control description: the controls afterwards, and whether a null
   pointer was dereferenced (strcmp of a missing type name, c->m_type of a
   control that was not created) *)
LoadControl(controls, control) ==
    LET control_type == tco_json_get_str(control, "type")
        r == tco_context_create_control(controls,
                 tco_json_get_int(control, "id"),
                 control_type[1],
                 tco_json_get_int(control, "x"),
                 tco_json_get_int(control, "y"),
                 tco_json_get_int(control, "width"),
                 tco_json_get_int(control, "height"))
    IN  IF Len(controls) < MAX_TCO_CONTROLS /\ control_type = NULL
        THEN [controls |-> controls, fault |-> TRUE]
        ELSE IF r.c = 0
        THEN [controls |-> r.controls, fault |-> TRUE]
        ELSE [controls |->
                  [r.controls EXCEPT
                      ![r.c] = LoadLabel(LoadProperties(@, control), control)],
              fault |-> FALSE]

(* the for loop over the array of control descriptions; a description that
   is not an object ends the loop *)
RECURSIVE LoadControls(_, _, _)
LoadControls(controls, array, i) ==
    IF i > Len(array)
    THEN [controls |-> controls, fault |-> FALSE]
    ELSE IF array[i].type # cJSON_Object
    THEN [controls |-> controls, fault |-> FALSE]
    ELSE LET r == LoadControl(controls, array[i])
         IN  IF r.fault THEN r ELSE LoadControls(r.controls, array, i + 1)

(* the version test, accepting later versions too *)
VersionSupported_OrLater(version) == version >= TCO_FILE_VERSION

(* the version test of tco_context_load_controls *)
VersionSupported(version) == version = TCO_FILE_VERSION

(* the text tco_context_load_controls reads *)
LoadText(fs, default_fileName, user_fileName) ==
    LET json_text == tco_read_text_file(fs, user_fileName)
    IN  IF json_text = NULL
        THEN tco_read_text_file(fs, default_fileName)
        ELSE json_text

(* the body of while (json_text) *)
LoadRoot(controls, json_text) ==
    LET root == cJSON_Parse(json_text)
        failed == [controls |-> controls, retCode |-> TCO_FAILURE, fault |-> FALSE]
    IN  IF root = NULL
        THEN failed
        ELSE IF ~VersionSupported(tco_json_get_int(root[1], "version"))
        THEN failed
        ELSE LET array == cJSON_GetObjectItem(root[1], "controls")
             IN  IF array # NULL /\ array[1].type = cJSON_Array
                 THEN LET r == LoadControls(controls, array[1].v, 1)
                      IN  [controls |-> r.controls, retCode |-> TCO_SUCCESS,
                           fault |-> r.fault]
                 ELSE failed

(* tco_context_load_controls: the controls and the user path afterwards, the
   value returned and whether the process died *)
tco_context_load_controls(controls, fs, default_fileName, user_fileName) ==
    LET json_text == LoadText(fs, default_fileName, user_fileName)
        r == IF json_text = NULL
             THEN [controls |-> controls, retCode |-> TCO_FAILURE, fault |-> FALSE]
             ELSE LoadRoot(controls, json_text[1])
    IN  [controls |-> r.controls, path |-> user_fileName,
         retCode |-> r.retCode, fault |-> r.fault]

(* ---------------- the configuration window ---------------- *)
(* tco_control_move without the upper clamps *)
tco_control_move_NoCeiling(control, dx, dy, max_x, max_y) ==
    IF dx = 0 /\ dy = 0
    THEN [control |-> control, ok |-> TRUE, fault |-> FALSE]
    ELSE LET x1 == IF control.m_x + dx <= 0 THEN 0 ELSE control.m_x + dx
             y1 == IF control.m_y + dy <= 0 THEN 0 ELSE control.m_y + dy
         IN  [control |-> [control EXCEPT !.m_x = x1, !.m_y = y1],
              ok |-> control.m_label # NULL,
              fault |-> control.m_label = NULL]

(* tco_control_move that cuts the control to fit at the upper clamps *)
tco_control_move_Shrinks(control, dx, dy, max_x, max_y) ==
    IF dx = 0 /\ dy = 0
    THEN [control |-> control, ok |-> TRUE, fault |-> FALSE]
    ELSE LET x1 == IF control.m_x + dx <= 0 THEN 0 ELSE control.m_x + dx
             y1 == IF control.m_y + dy <= 0 THEN 0 ELSE control.m_y + dy
             w2 == IF x1 + control.m_width >= max_x
                   THEN max_x - x1 ELSE control.m_width
             h2 == IF y1 + control.m_height >= max_y
                   THEN max_y - y1 ELSE control.m_height
         IN  [control |-> [control EXCEPT !.m_x = x1, !.m_y = y1,
                                          !.m_width = w2, !.m_height = h2],
              ok |-> control.m_label # NULL,
              fault |-> control.m_label = NULL]

(* tco_control_move: the control afterwards, the value returned, and whether
   tco_label_move dereferenced a null m_label *)
tco_control_move(control, dx, dy, max_x, max_y) ==
    IF dx = 0 /\ dy = 0
    THEN [control |-> control, ok |-> TRUE, fault |-> FALSE]
    ELSE LET x1 == IF control.m_x + dx <= 0 THEN 0 ELSE control.m_x + dx
             y1 == IF control.m_y + dy <= 0 THEN 0 ELSE control.m_y + dy
             x2 == IF x1 + control.m_width >= max_x
                   THEN max_x - control.m_width ELSE x1
             y2 == IF y1 + control.m_height >= max_y
                   THEN max_y - control.m_height ELSE y1
         IN  [control |-> [control EXCEPT !.m_x = x2, !.m_y = y2],
              ok |-> control.m_label # NULL,
              fault |-> control.m_label = NULL]

(* tco_context_control_at that returns the last control containing the
   point *)
tco_context_control_at_Last(controls, x, y) ==
    IF \E i \in DOMAIN controls : tco_control_in_bounds(controls[i], x, y)
    THEN CHOOSE i \in DOMAIN controls :
            /\ tco_control_in_bounds(controls[i], x, y)
            /\ \A j \in DOMAIN controls :
                  j > i => ~tco_control_in_bounds(controls[j], x, y)
    ELSE 0

(* index of the first control that contains the point, or 0 *)
tco_context_control_at(controls, x, y) ==
    IF \E i \in DOMAIN controls : tco_control_in_bounds(controls[i], x, y)
    THEN CHOOSE i \in DOMAIN controls :
            /\ tco_control_in_bounds(controls[i], x, y)
            /\ \A j \in 1 .. (i - 1) : ~tco_control_in_bounds(controls[j], x, y)
    ELSE 0

(* tco_configuration_window_draw dereferences the m_label of every control *)
DrawFaults(controls) == \E i \in DOMAIN controls : controls[i].m_label = NULL

(* struct tco_configuration_window after tco_configuration_alloc; m_selected
   is the index of the selected control, 0 for none *)
tco_configuration_alloc(size) ==
    [ m_selected |-> 0, m_startPos |-> <<0, 0>>, m_endPos |-> <<0, 0>>,
      m_size |-> size ]

(* the test for the first touch, passing every touch id *)
FirstTouch_AnyTouchId(touchId) == TRUE

(* if(touchId == 0) *)
FirstTouch(touchId) == touchId = 0

(* the switch on eventType for the first touch: the window afterwards *)
RunSwitch(window, controls, ev) ==
    CASE ev.code = SCREEN_EVENT_MTOUCH_TOUCH /\ window.m_selected = 0 ->
           LET selected == tco_context_control_at(controls, ev.x, ev.y)
           IN  IF selected # 0
               THEN [window EXCEPT !.m_selected = selected,
                                   !.m_startPos = <<ev.x, ev.y>>,
                                   !.m_endPos = <<ev.x, ev.y>>]
               ELSE [window EXCEPT !.m_startPos = <<0, 0>>,
                                   !.m_endPos = <<0, 0>>]
      [] ev.code = SCREEN_EVENT_MTOUCH_MOVE /\ window.m_selected # 0 ->
           [window EXCEPT !.m_endPos = <<ev.x, ev.y>>]
      [] ev.code = SCREEN_EVENT_MTOUCH_RELEASE /\ window.m_selected # 0 ->
           [window EXCEPT !.m_endPos = <<ev.x, ev.y>>]
      [] OTHER -> window

(* RunMove that advances the drag anchor by the distance the control went,
   not to the position of the event *)
RunMove_AnchorFollowsControl(window, controls, screen_event, releasedThisRound) ==
    IF releasedThisRound
    THEN [window |-> [window EXCEPT !.m_selected = 0,
                                    !.m_startPos = <<0, 0>>,
                                    !.m_endPos = <<0, 0>>],
          controls |-> controls, retCode |-> TCO_SUCCESS, fault |-> FALSE]
    ELSE IF window.m_selected = 0
    THEN [window |-> window, controls |-> controls,
          retCode |-> TCO_SUCCESS, fault |-> FALSE]
    ELSE LET deltaX == window.m_endPos[1] - window.m_startPos[1]
             deltaY == window.m_endPos[2] - window.m_startPos[2]
             c == controls[window.m_selected]
             r == tco_control_move(c, deltaX, deltaY,
                                   window.m_size[1], window.m_size[2])
         IN  IF deltaX # 0 \/ deltaY # 0
             THEN [window |->
                       [window EXCEPT !.m_startPos =
                           << window.m_startPos[1] + r.control.m_x - c.m_x,
                              window.m_startPos[2] + r.control.m_y - c.m_y >>],
                   controls |-> [controls EXCEPT ![window.m_selected] = r.control],
                   retCode |-> IF r.ok THEN TCO_SUCCESS ELSE TCO_FAILURE,
                   fault |-> r.fault]
             ELSE [window |-> window, controls |-> controls,
                   retCode |-> TCO_SUCCESS, fault |-> FALSE]

(* RunMove that leaves the drag anchor where the touch went down *)
RunMove_AnchorStays(window, controls, screen_event, releasedThisRound) ==
    IF releasedThisRound
    THEN [window |-> [window EXCEPT !.m_selected = 0,
                                    !.m_startPos = <<0, 0>>,
                                    !.m_endPos = <<0, 0>>],
          controls |-> controls, retCode |-> TCO_SUCCESS, fault |-> FALSE]
    ELSE IF window.m_selected = 0
    THEN [window |-> window, controls |-> controls,
          retCode |-> TCO_SUCCESS, fault |-> FALSE]
    ELSE LET deltaX == window.m_endPos[1] - window.m_startPos[1]
             deltaY == window.m_endPos[2] - window.m_startPos[2]
             r == tco_control_move(controls[window.m_selected],
                                   deltaX, deltaY,
                                   window.m_size[1], window.m_size[2])
         IN  IF deltaX # 0 \/ deltaY # 0
             THEN [window |-> window,
                   controls |-> [controls EXCEPT ![window.m_selected] = r.control],
                   retCode |-> IF r.ok THEN TCO_SUCCESS ELSE TCO_FAILURE,
                   fault |-> r.fault]
             ELSE [window |-> window, controls |-> controls,
                   retCode |-> TCO_SUCCESS, fault |-> FALSE]

(* the part of tco_configuration_window_run after the event was read *)
RunMove(window, controls, screen_event, releasedThisRound) ==
    IF releasedThisRound
    THEN [window |-> [window EXCEPT !.m_selected = 0,
                                    !.m_startPos = <<0, 0>>,
                                    !.m_endPos = <<0, 0>>],
          controls |-> controls, retCode |-> TCO_SUCCESS, fault |-> FALSE]
    ELSE IF window.m_selected = 0
    THEN [window |-> window, controls |-> controls,
          retCode |-> TCO_SUCCESS, fault |-> FALSE]
    ELSE LET deltaX == window.m_endPos[1] - window.m_startPos[1]
             deltaY == window.m_endPos[2] - window.m_startPos[2]
             maxDelta == IF abs(deltaX) > abs(deltaY)
                         THEN abs(deltaX) ELSE abs(deltaY)
         IN  IF maxDelta > 0 \/ (screen_event = NULL /\ maxDelta # 0)
             THEN LET r == tco_control_move(controls[window.m_selected],
                                            deltaX, deltaY,
                                            window.m_size[1], window.m_size[2])
                  IN  [window |-> [window EXCEPT !.m_startPos = window.m_endPos],
                       controls |-> [controls EXCEPT ![window.m_selected] = r.control],
                       retCode |-> IF r.ok THEN TCO_SUCCESS ELSE TCO_FAILURE,
                       fault |-> r.fault]
             ELSE [window |-> window, controls |-> controls,
                   retCode |-> TCO_SUCCESS, fault |-> FALSE]

(* tco_configuration_window_run; screen_event is NULL or the event *)
tco_configuration_window_run(window, controls, screen_event) ==
    IF screen_event = NULL
    THEN RunMove(window, controls, screen_event, FALSE)
    ELSE IF screen_event[1].code \notin TouchEventTypes
    THEN [window |-> window, controls |-> controls,
          retCode |-> TCO_UNHANDLED, fault |-> FALSE]
    ELSE IF FirstTouch(screen_event[1].touch_id)
    THEN RunMove(RunSwitch(window, controls, screen_event[1]), controls,
                 screen_event,
                 /\ screen_event[1].code = SCREEN_EVENT_MTOUCH_RELEASE
                 /\ window.m_selected # 0)
    ELSE RunMove(window, controls, screen_event, FALSE)

(* ---------------- events ---------------- *)
NAVIGATOR_EXIT == "NAVIGATOR_EXIT"
NAVIGATOR_SWIPE_DOWN == "NAVIGATOR_SWIPE_DOWN"
SCREEN_EVENT_CLOSE == "CLOSE"

IsNavigator(ev, code) == ev.domain = "navigator" /\ ev.code = code

IsScreen(ev, codes) == ev.domain = "screen" /\ ev.code \in codes

(* History: what a save wrote, as the fields of the controls that a layout
   file describes. *)
StaticOf(controls) ==
    [i \in DOMAIN controls |->
        [m_type |-> controls[i].m_type, m_id |-> controls[i].m_id,
         m_x |-> controls[i].m_x, m_y |-> controls[i].m_y,
         m_width |-> controls[i].m_width, m_height |-> controls[i].m_height,
         m_properties |-> controls[i].m_properties,
         m_label |-> controls[i].m_label]]

SavedAfter(h, filePath, controls) ==
    IF filePath = NULL \/ filePath[1] = ""
    THEN h
    ELSE (filePath[1] :> <<StaticOf(controls)>>) @@ h

(* the test for a shown configuration window, never true *)
ConfigurationShown_Never(configWindow) == FALSE

(* if(ctx->m_configWindow != NULL) *)
ConfigurationShown(configWindow) == configWindow # NULL

(* the return value alone changes *)
Returns(code) ==
    /\ retCode' = code
    /\ UNCHANGED <<m_controls, touchVars, m_configWindow, m_user_control_path,
                   files, fault, saved>>

(* tco_configuration_window_free and ctx->m_configWindow = 0 *)
Closes(code) ==
    /\ m_configWindow' = NULL
    /\ retCode' = code
    /\ UNCHANGED <<m_controls, touchVars, m_user_control_path, files, fault,
                   saved>>

(* tco_context_handle_events while the configuration window is shown *)
WindowShown(bps) ==
    IF bps = NULL \/ IsScreen(bps[1], TouchEventTypes)
    THEN \E r \in {tco_configuration_window_run(m_configWindow[1], m_controls,
                                                 bps)} :
            /\ m_configWindow' = <<r.window>>
            /\ m_controls' = r.controls
            /\ fault' = r.fault
            /\ retCode' = IF bps = NULL THEN TCO_SUCCESS ELSE r.retCode
            /\ UNCHANGED <<touchVars, m_user_control_path, files, saved>>
    ELSE IF IsNavigator(bps[1], NAVIGATOR_EXIT)
    THEN Closes(TCO_UNHANDLED)
    ELSE IF IsNavigator(bps[1], NAVIGATOR_SWIPE_DOWN)
    THEN \E r \in {tco_context_save_controls(m_controls, m_user_control_path,
                                              files, m_user_control_path)} :
            /\ m_configWindow' = NULL
            /\ files' = r.files
            /\ saved' = SavedAfter(saved, r.filePath, m_controls)
            /\ retCode' = TCO_SUCCESS
            /\ UNCHANGED <<m_controls, touchVars, m_user_control_path, fault>>
    ELSE IF IsScreen(bps[1], {SCREEN_EVENT_CLOSE})
    THEN Closes(TCO_UNHANDLED)
    ELSE Returns(TCO_UNHANDLED)

(* WindowNotShown that reports a touch event no control handled as a
   failure *)
WindowNotShown_FailsUnhandled(bps, size) ==
    IF bps = NULL
    THEN Returns(TCO_SUCCESS)
    ELSE IF IsNavigator(bps[1], NAVIGATOR_SWIPE_DOWN)
    THEN /\ fault' = DrawFaults(m_controls)
         /\ m_configWindow' =
                IF DrawFaults(m_controls) THEN NULL
                ELSE <<tco_configuration_alloc(size)>>
         /\ retCode' = TCO_SUCCESS
         /\ UNCHANGED <<m_controls, touchVars, m_user_control_path, files, saved>>
    ELSE IF IsScreen(bps[1], TouchEventTypes)
    THEN /\ tco_context_touch_event(bps[1].code, bps[1].touch_id,
                                   bps[1].x, bps[1].y, bps[1].timestamp)
         /\ retCode' = IF handled' THEN TCO_SUCCESS ELSE TCO_FAILURE
         /\ UNCHANGED <<m_configWindow, m_user_control_path, files, fault, saved>>
    ELSE Returns(TCO_UNHANDLED)

(* tco_context_handle_events while no configuration window is shown; size is
   the buffer size of the host window *)
WindowNotShown(bps, size) ==
    IF bps = NULL
    THEN Returns(TCO_SUCCESS)
    ELSE IF IsNavigator(bps[1], NAVIGATOR_SWIPE_DOWN)
    THEN /\ fault' = DrawFaults(m_controls)
         /\ m_configWindow' =
                IF DrawFaults(m_controls) THEN NULL
                ELSE <<tco_configuration_alloc(size)>>
         /\ retCode' = TCO_SUCCESS
         /\ UNCHANGED <<m_controls, touchVars, m_user_control_path, files, saved>>
    ELSE IF IsScreen(bps[1], TouchEventTypes)
    THEN /\ tco_context_touch_event(bps[1].code, bps[1].touch_id,
                                   bps[1].x, bps[1].y, bps[1].timestamp)
         /\ retCode' = IF handled' THEN TCO_SUCCESS ELSE TCO_UNHANDLED
         /\ UNCHANGED <<m_configWindow, m_user_control_path, files, fault, saved>>
    ELSE Returns(TCO_UNHANDLED)

tco_context_handle_events(bps, size) ==
    IF ConfigurationShown(m_configWindow)
    THEN WindowShown(bps)
    ELSE WindowNotShown(bps, size)

(* the public entry point; a process that died handles nothing *)
tco_handle_events(bps, size) ==
    /\ ~fault
    /\ input' = InputOf(bps)
    /\ IF bps = NULL
       THEN Returns(TCO_SUCCESS)
       ELSE tco_context_handle_events(bps, size)

(* ---------------- ConfigSpec ---------------- *)
(* buffer size of the host window, which tco_window_init gives the
   configuration window *)
SurfaceSize == <<30, 25>>

(* a rectangle wider than the host window *)
WideRect == <<0, 0, 50, 20>>

(* positions of the touch events: in the left control, in both controls, and
   in the far corner of the surface *)
ConfigPositions == { <<5, 5>>, <<18, 12>>, <<29, 24>> }

(* the first touch and a second finger *)
ConfigTouchIds == {0, 1}

(* the label of a control description, or none *)
ConfigLabel == <<tco_label_alloc(2, 2, 16, 16, 128, <<"label.png">>)>>

(* the overlays of ConfigSpec, each control a type name, a rectangle and a
   label: two overlapping labelled controls, a labelled control wider than
   the surface, and a control without a label *)
ConfigOverlays ==
    { << <<"key", LeftRect, ConfigLabel>>, <<"dpad", RightRect, ConfigLabel>> >>,
      << <<"mousebutton", WideRect, ConfigLabel>> >>,
      << <<"key", LeftRect, NULL>> >> }

UserPath == "user.json"

(* the events the host passes to tco_handle_events *)
ConfigEvents ==
    { bps_event("navigator", code, 0, 0, 0, 0) :
        code \in {NAVIGATOR_EXIT, NAVIGATOR_SWIPE_DOWN} }
    \cup { bps_event("screen", SCREEN_EVENT_CLOSE, 0, 0, 0, 0) }
    \cup { bps_event("screen", type, touch_id, pos[1], pos[2], 0) :
             type \in TouchEventTypes, touch_id \in ConfigTouchIds,
             pos \in ConfigPositions }

(* a context whose controls were loaded from the default layout, with a user
   layout path that names no file yet *)
ConfigInit ==
    /\ \E o \in ConfigOverlays :
          m_controls =
              [i \in 1 .. Len(o) |->
                  [tco_control_alloc(i, o[i][1], o[i][2][1], o[i][2][2],
                                     o[i][2][3], o[i][2][4])
                      EXCEPT !.m_label = o[i][3]]]
    /\ m_touch_owners = << >>
    /\ event = [type |-> "NONE", touch_id |-> NO_TOUCH, x |-> 0, y |-> 0,
                timestamp |-> 0]
    /\ touchPointOwner = 0
    /\ handled = FALSE
    /\ emitted = << >>
    /\ drift = NoDrift
    /\ m_configWindow = NULL
    /\ m_user_control_path = <<UserPath>>
    /\ files = (UserPath :> NULL)
    /\ retCode = TCO_SUCCESS
    /\ fault = FALSE
    /\ saved = (UserPath :> NULL)
    /\ input = NULL

ConfigNext ==
    \E bps \in {NULL} \cup { <<e>> : e \in ConfigEvents } :
        tco_handle_events(bps, SurfaceSize)

ConfigSpec == ConfigInit /\ [][ConfigNext]_vars

(* ---------------- LayoutSpec ---------------- *)
MaxHeld == 0              \* the host loads into a context of at most MaxHeld controls

DefaultPath == "default.json"

(* the file names the host passes: none, or one of the two paths *)
FileNames == { NULL, <<DefaultPath>>, <<UserPath>> }

(* a JSON object with the given members *)
Object(members) == [type |-> cJSON_Object, v |-> members]

Rect(rect) ==
    ("x" :> cJSON_CreateNumber(rect[1])) @@ ("y" :> cJSON_CreateNumber(rect[2]))
    @@ ("width" :> cJSON_CreateNumber(rect[3]))
    @@ ("height" :> cJSON_CreateNumber(rect[4]))

(* control descriptions as a layout file spells them *)
KeyEntry ==
    Object(("type" :> cJSON_CreateString("key")) @@ ("id" :> cJSON_CreateNumber(1))
           @@ Rect(LeftRect)
           @@ ("symbol" :> cJSON_CreateNumber(97))
           @@ ("modifier" :> cJSON_CreateNumber(4))
           @@ ("scancode" :> cJSON_CreateNumber(30))
           @@ ("unicode" :> cJSON_CreateNumber(65))
           @@ ("label" :> Object(Rect(<<2, 2, 16, 16>>)
                                 @@ ("alpha" :> cJSON_CreateNumber(128))
                                 @@ ("image" :> cJSON_CreateString("key.png")))))

MouseButtonEntry ==
    Object(("type" :> cJSON_CreateString("mousebutton"))
           @@ ("id" :> cJSON_CreateNumber(2))
           @@ Rect(RightRect)
           @@ ("mask" :> cJSON_CreateNumber(1))
           @@ ("button" :> cJSON_CreateNumber(2)))

TouchAreaEntry ==
    Object(("type" :> cJSON_CreateString("toucharea"))
           @@ ("id" :> cJSON_CreateNumber(3))
           @@ Rect(WideRect)
           @@ ("tapSensitive" :> cJSON_CreateNumber(1))
           @@ ("label" :> Object(Rect(<<0, 0, 8, 8>>)
                                 @@ ("alpha" :> cJSON_CreateNumber(255)))))

DPadEntry ==
    Object(("type" :> cJSON_CreateString("dpad")) @@ ("id" :> cJSON_CreateNumber(4))
           @@ Rect(RightRect))

(* the text of a layout file with the given version and controls member *)
Document(version, controls) ==
    cJSON_Print(Object(("version" :> cJSON_CreateNumber(version))
                       @@ ("controls" :> controls)))

Array(items) == [type |-> cJSON_Array, v |-> items]

DefaultDocument == Document(TCO_FILE_VERSION, Array(<<KeyEntry, MouseButtonEntry>>))

(* one control description more than a context holds *)
TooManyEntries ==
    [i \in 1 .. (MAX_TCO_CONTROLS + 1) |->
        IF i = 1 THEN KeyEntry ELSE IF i = 2 THEN MouseButtonEntry ELSE DPadEntry]

(* the user file: absent, or a text that is a layout, not JSON, of another
   version, without controls, with controls that are no array, with an entry
   that is no object, first or later, or with too many entries *)
UserDocuments ==
    { NULL,
      <<Document(TCO_FILE_VERSION, Array(<<TouchAreaEntry>>))>>,
      <<NotJSON>>,
      <<Document(TCO_FILE_VERSION + 1, Array(<<TouchAreaEntry>>))>>,
      <<cJSON_Print(Object("version" :> cJSON_CreateNumber(TCO_FILE_VERSION)))>>,
      <<Document(TCO_FILE_VERSION, cJSON_CreateNumber(0))>>,
      <<Document(TCO_FILE_VERSION, Array(<<cJSON_CreateNumber(7), DPadEntry>>))>>,
      <<Document(TCO_FILE_VERSION, Array(<<DPadEntry, cJSON_CreateNumber(7)>>))>>,
      <<Document(TCO_FILE_VERSION, Array(TooManyEntries))>> }

(* tco_initialize, and a file system with the default layout and one of the
   user files *)
LayoutInit ==
    /\ m_controls = << >>
    /\ m_touch_owners = << >>
    /\ event = [type |-> "NONE", touch_id |-> NO_TOUCH, x |-> 0, y |-> 0,
                timestamp |-> 0]
    /\ touchPointOwner = 0
    /\ handled = FALSE
    /\ emitted = << >>
    /\ drift = NoDrift
    /\ m_configWindow = NULL
    /\ m_user_control_path = NULL
    /\ \E u \in UserDocuments :
          files = (DefaultPath :> <<DefaultDocument>>) @@ (UserPath :> u)
    /\ retCode = TCO_SUCCESS
    /\ fault = FALSE
    /\ saved = (DefaultPath :> NULL) @@ (UserPath :> NULL)
    /\ input = NULL

tco_loadcontrols(default_fileName, user_fileName) ==
    /\ ~fault
    /\ m_numControls <= MaxHeld
    /\ \E r \in {tco_context_load_controls(m_controls, files, default_fileName,
                                            user_fileName)} :
          /\ m_controls' = r.controls
          /\ m_user_control_path' = r.path
          /\ retCode' = r.retCode
          /\ fault' = r.fault
    /\ input' = <<[call |-> "tco_loadcontrols",
                   default_fileName |-> default_fileName,
                   user_fileName |-> user_fileName]>>
    /\ UNCHANGED <<touchVars, m_configWindow, files, saved>>

tco_savecontrols(user_fileName) ==
    /\ ~fault
    /\ \E r \in {tco_context_save_controls(m_controls, m_user_control_path,
                                            files, user_fileName)} :
          /\ files' = r.files
          /\ saved' = SavedAfter(saved, r.filePath, m_controls)
          /\ retCode' = r.retCode
    /\ input' = <<[call |-> "tco_savecontrols", user_fileName |-> user_fileName]>>
    /\ UNCHANGED <<m_controls, touchVars, m_configWindow, m_user_control_path,
                   fault>>

(* tco_shutdown of the context and tco_initialize of a new one *)
tco_initialize ==
    /\ ~fault
    /\ m_controls' = << >>
    /\ m_user_control_path' = NULL
    /\ m_configWindow' = NULL
    /\ retCode' = TCO_SUCCESS
    /\ input' = <<[call |-> "tco_initialize"]>>
    /\ UNCHANGED <<touchVars, files, fault, saved>>

LayoutNext ==
    \/ \E default_fileName \in FileNames, user_fileName \in FileNames :
          tco_loadcontrols(default_fileName, user_fileName)
    \/ \E user_fileName \in FileNames : tco_savecontrols(user_fileName)
    \/ tco_initialize

LayoutSpec == LayoutInit /\ [][LayoutNext]_vars

(* ---------------- vocabulary of the properties ---------------- *)

Controls == DOMAIN m_controls

HasUpSemantic(type) == type \in {KEY, DPAD, MOUSEBUTTON}

CallbackOf(type) ==
    CASE type = KEY -> "key"
      [] type = DPAD -> "dpad"
      [] type = MOUSEBUTTON -> "mouse"
      [] type = TOUCHAREA -> "touch"
      [] OTHER -> "touchscreen"

(* the callbacks in out that control i invoked *)
By(out, i) == SelectSeq(out, LAMBDA e : e.ctl = i)

Ups(out, i) == SelectSeq(out, LAMBDA e : e.ctl = i /\ e.event = "UP")

Downs(out, i) == SelectSeq(out, LAMBDA e : e.ctl = i /\ e.event = "DOWN")

OwnerEntries(owners, touch_id) ==
    { p \in 1 .. Len(owners) : owners[p].touch_id = touch_id }

EntriesOf(owners, i) ==
    { p \in 1 .. Len(owners) : owners[p].control = i }

(* the event dispatched last lies inside control i as it is now *)
EventInside(i) == tco_control_in_bounds(m_controls[i], event.x, event.y)

(* control i owns the touch id of the event being dispatched in this step *)
Owns(i) ==
    /\ m_controls[i].m_touchId # NO_TOUCH
    /\ event'.touch_id = m_controls[i].m_touchId

(* the event being dispatched in this step lies inside control i *)
InsideNext(i) == tco_control_in_bounds(m_controls[i], event'.x, event'.y)

(* the event being dispatched in this step ends control i's ownership *)
EndsOwnership(i) ==
    /\ Owns(i)
    /\ event'.type = SCREEN_EVENT_MTOUCH_RELEASE \/ ~InsideNext(i)

(* ---------------- C1 ---------------- *)
(* C1: the ownership table holds at most one entry per touch id and no touch
   id is the active touch id of two controls at the same time. *)
C1_OneOwnerPerTouchId ==
    /\ \A t \in TouchIds : Cardinality(OwnerEntries(m_touch_owners, t)) <= 1
    /\ \A i, j \in Controls :
          (i # j /\ m_controls[i].m_touchId # NO_TOUCH)
              => m_controls[i].m_touchId # m_controls[j].m_touchId

(* one event made control 1 give a touch id up and control 2 claim it, while
   the other touch id stays owned elsewhere or not at all *)
C1_Witness ==
    /\ handled
    /\ Len(By(emitted, 1)) = 1 /\ By(emitted, 1)[1].event = "UP"
    /\ Len(By(emitted, 2)) = 1 /\ By(emitted, 2)[1].event = "DOWN"
    /\ m_controls[2].m_touchId = event.touch_id
    /\ m_controls[1].m_touchId = NO_TOUCH
    /\ Len(m_touch_owners) = 1

(* ---------------- C2 ---------------- *)
(* C2: a release event for touch id t dispatched while a control owns t makes
   the owner emit exactly one up event of its type (key-up, mouse-button-up,
   dpad-up), inside or outside its rectangle, and afterwards no control has
   active touch id t and the table has no entry for t. *)
C2_ReleaseEndsOwnership ==
    [][ \A i \in Controls :
          ( /\ m_controls[i].m_touchId # NO_TOUCH
            /\ event'.type = SCREEN_EVENT_MTOUCH_RELEASE
            /\ event'.touch_id = m_controls[i].m_touchId )
          => /\ HasUpSemantic(m_controls[i].m_type)
                  => /\ Len(Ups(emitted', i)) = 1
                     /\ Ups(emitted', i)[1].cb = CallbackOf(m_controls[i].m_type)
                     /\ Len(Downs(emitted', i)) = 0
             /\ \A j \in Controls : m_controls'[j].m_touchId # event'.touch_id
             /\ OwnerEntries(m_touch_owners', event'.touch_id) = {}
      ]_vars

(* a release outside the owner's rectangle produced the owner's up event *)
C2_Witness ==
    /\ event.type = SCREEN_EVENT_MTOUCH_RELEASE
    /\ \E i \in Controls :
          /\ ~EventInside(i)
          /\ Len(Ups(emitted, i)) = 1
          /\ m_controls[i].m_touchId = NO_TOUCH
    /\ OwnerEntries(m_touch_owners, event.touch_id) = {}

(* ---------------- C3 ---------------- *)
(* C3 as the specification states it: an owner that receives an event for its
   touch id outside its rectangle emits exactly one up event, whatever its
   type, clears its touch id and loses its table entry. *)
C3_OneUpForEveryType ==
    [][ \A i \in Controls :
          (Owns(i) /\ ~InsideNext(i))
          => /\ Len(Ups(emitted', i)) = 1
             /\ Len(By(emitted', i)) = 1
             /\ m_controls'[i].m_touchId = NO_TOUCH
             /\ EntriesOf(m_touch_owners', i) = {}
      ]_vars

(* C3: an owner that receives an event for its touch id outside its rectangle
   clears its touch id and loses its table entry; a Key, DPad or MouseButton
   control emits exactly one up event, a TouchArea control emits no up event
   but the relative motion from its anchor when the anchor moved, and a
   TouchScreen control emits nothing. *)
C3_DriftEndsOwnership ==
    [][ \A i \in Controls :
          (Owns(i) /\ ~InsideNext(i))
          => LET c  == m_controls[i]
                 dx == event'.x - c.m_last_x
                 dy == event'.y - c.m_last_y
             IN  /\ m_controls'[i].m_touchId = NO_TOUCH
                 /\ EntriesOf(m_touch_owners', i) = {}
                 /\ HasUpSemantic(c.m_type)
                      => /\ Len(By(emitted', i)) = 1
                         /\ By(emitted', i)[1].event = "UP"
                         /\ By(emitted', i)[1].cb = CallbackOf(c.m_type)
                 /\ c.m_type = TOUCHAREA
                      => By(emitted', i) =
                            IF dx # 0 \/ dy # 0
                            THEN Invoke("touch", i, "", dx, dy, 0, 0)
                            ELSE << >>
                 /\ c.m_type = TOUCHSCREEN => By(emitted', i) = << >>
      ]_vars

(* a move outside a touch area took the touch away from it and produced a
   relative motion, not an up event *)
C3_Witness ==
    /\ event.type = SCREEN_EVENT_MTOUCH_MOVE
    /\ touchPointOwner \in Controls
    /\ m_controls[touchPointOwner].m_type = TOUCHAREA
    /\ ~EventInside(touchPointOwner)
    /\ m_controls[touchPointOwner].m_touchId = NO_TOUCH
    /\ Len(emitted) = 1 /\ emitted[1].cb = "touch"
    /\ m_touch_owners = << >>

(* ---------------- C4 ---------------- *)
(* C4 as the specification states it: a control that lost a touch id by drift
   does not claim a later in-bounds move for that touch id when no release
   and no touch-down came in between. *)
C4_NoReclaimByMove ==
    [][ \A i \in Controls :
          ( /\ drift.control = i
            /\ drift.touch_id = event'.touch_id
            /\ event'.type = SCREEN_EVENT_MTOUCH_MOVE
            /\ m_controls[i].m_touchId = NO_TOUCH
            /\ InsideNext(i) )
          => m_controls'[i].m_touchId = NO_TOUCH
      ]_vars

(* the owner of touch_id handles the event being dispatched in this step *)
OwnerHandles(touch_id) ==
    \E o \in Controls :
        /\ m_controls[o].m_touchId = touch_id
        /\ InsideNext(o)
        /\ event'.type # SCREEN_EVENT_MTOUCH_RELEASE

(* a control before i in creation order starts handling the event *)
EarlierAccepts(i) ==
    \E j \in Controls :
        /\ j < i
        /\ m_controls[j].m_touchId = NO_TOUCH
        /\ InsideNext(j)

(* C4: a control that owns no touch, whether or not it lost one by drift
   before, claims a touch or move event inside its rectangle when the owner
   of the touch id does not handle the event and no earlier control accepts
   it: it takes the touch id, gets the head entry of the table and a Key,
   DPad or MouseButton control emits its down event. *)
C4_UnownedClaimsTouchOrMove ==
    [][ \A i \in Controls :
          ( /\ m_controls[i].m_touchId = NO_TOUCH
            /\ event'.type # SCREEN_EVENT_MTOUCH_RELEASE
            /\ InsideNext(i)
            /\ ~OwnerHandles(event'.touch_id)
            /\ ~EarlierAccepts(i) )
          => /\ m_controls'[i].m_touchId = event'.touch_id
             /\ handled'
             /\ m_touch_owners' # << >>
             /\ m_touch_owners'[1] = touch_owner(i, event'.touch_id)
             /\ HasUpSemantic(m_controls[i].m_type)
                  => /\ Len(By(emitted', i)) = 1
                     /\ By(emitted', i)[1].event = "DOWN"
      ]_vars

(* a control that lost a touch id by drift owns it again after a move, with
   no release in between *)
C4_Witness ==
    /\ drift.control \in Controls
    /\ event.type = SCREEN_EVENT_MTOUCH_MOVE
    /\ event.touch_id = drift.touch_id
    /\ touchPointOwner = 0
    /\ m_controls[drift.control].m_touchId = drift.touch_id
    /\ Len(Downs(emitted, drift.control)) = 1

(* ---------------- C5 ---------------- *)
(* C5 as the specification states it: for every control type, an in-bounds
   move for the touch id a control owns makes it emit no down event. *)
C5_NoDownOnMoveForEveryType ==
    [][ \A i \in Controls :
          ( /\ Owns(i)
            /\ event'.type = SCREEN_EVENT_MTOUCH_MOVE
            /\ InsideNext(i) )
          => Len(Downs(emitted', i)) = 0
      ]_vars

(* C5: an in-bounds move for the touch id a control owns makes a Key,
   MouseButton, TouchArea or TouchScreen control emit no down event, and makes
   a DPad control emit exactly one dpad down event with the angle of the new
   position; the control keeps the touch id. *)
C5_DownOnMoveOnlyForDPad ==
    [][ \A i \in Controls :
          ( /\ Owns(i)
            /\ event'.type = SCREEN_EVENT_MTOUCH_MOVE
            /\ InsideNext(i) )
          => /\ m_controls[i].m_type # DPAD => Len(Downs(emitted', i)) = 0
             /\ m_controls[i].m_type \in {KEY, MOUSEBUTTON}
                  => By(emitted', i) = << >>
             /\ m_controls[i].m_type = DPAD
                  => By(emitted', i) =
                        Invoke("dpad", i, "DOWN",
                               2 * (event'.y - m_controls[i].m_y)
                                   - m_controls[i].m_height,
                               2 * (event'.x - m_controls[i].m_x)
                                   - m_controls[i].m_width, 0, 0)
             /\ m_controls'[i].m_touchId = event'.touch_id
      ]_vars

(* a DPad control that owned the touch emitted a down event on a move inside
   its rectangle *)
C5_Witness ==
    /\ event.type = SCREEN_EVENT_MTOUCH_MOVE
    /\ touchPointOwner \in Controls
    /\ m_controls[touchPointOwner].m_type = DPAD
    /\ EventInside(touchPointOwner)
    /\ m_controls[touchPointOwner].m_touchId = event.touch_id
    /\ Len(Downs(emitted, touchPointOwner)) = 1

(* ---------------- C6 ---------------- *)
(* C6: a control that owns touch id t keeps m_touchId = t, and its table
   entry, across every event other than a release for t and an event for t
   outside its rectangle. *)
C6_OwnershipKept ==
    [][ \A i \in Controls :
          (m_controls[i].m_touchId # NO_TOUCH /\ ~EndsOwnership(i))
          => /\ m_controls'[i].m_touchId = m_controls[i].m_touchId
             /\ \E p \in 1 .. Len(m_touch_owners') :
                    m_touch_owners'[p] =
                        touch_owner(i, m_controls[i].m_touchId)
      ]_vars

(* a release for another touch id, outside the owner's rectangle, left the
   owner with its touch id *)
C6_Witness ==
    /\ event.type = SCREEN_EVENT_MTOUCH_RELEASE
    /\ \E i \in Controls :
          /\ m_controls[i].m_touchId # NO_TOUCH
          /\ m_controls[i].m_touchId # event.touch_id
          /\ ~EventInside(i)

(* ---------------- C7 ---------------- *)
(* time between the event being dispatched and the start of the touch on a
   touch screen control *)
ScreenElapsed(i) == event'.timestamp - m_controls[i].m_touchScreenStartTime

(* Manhattan distance of the event being dispatched from the start position *)
ScreenDistance(i) ==
    abs(event'.x - m_controls[i].m_start_x)
        + abs(event'.y - m_controls[i].m_start_y)

(* what the touch screen callback receives for a tap, a move and a hold *)
TapAt(i)  == Invoke("touchscreen", i, "", event'.x, event'.y, 1, 0)

MoveAt(i) == Invoke("touchscreen", i, "", event'.x, event'.y, 0, 0)

HoldAt(i) == Invoke("touchscreen", i, "", event'.x, event'.y, 0, 1)

(* C7 as the specification states it: an in-bounds release is a tap when it
   is early and near, and yields a motion or up event, not a tap, when it is
   late or far. *)
C7_LateReleaseYieldsMotion ==
    [][ \A i \in Controls :
          ( /\ m_controls[i].m_type = TOUCHSCREEN
            /\ Owns(i)
            /\ event'.type = SCREEN_EVENT_MTOUCH_RELEASE
            /\ InsideNext(i) )
          => /\ (ScreenElapsed(i) < TAP_THRESHOLD
                    /\ ScreenDistance(i) < JITTER_THRESHOLD)
                  => By(emitted', i) = TapAt(i)
             /\ (ScreenElapsed(i) > TAP_THRESHOLD
                    \/ ScreenDistance(i) > JITTER_THRESHOLD)
                  => /\ By(emitted', i) # << >>
                     /\ \A k \in 1 .. Len(By(emitted', i)) :
                            By(emitted', i)[k].tap = 0
      ]_vars

(* C7: a release for the touch a touch screen control owns emits tap(x,y),
   and nothing else, when it lies inside the rectangle less than
   TAP_THRESHOLD after the start of the touch, under JITTER_THRESHOLD from
   the start position and the control is not in hold; any other release
   emits no touch screen event at all. The release ends the ownership. *)
C7_ReleaseTapsOrIsSilent ==
    [][ \A i \in Controls :
          ( /\ m_controls[i].m_type = TOUCHSCREEN
            /\ Owns(i)
            /\ event'.type = SCREEN_EVENT_MTOUCH_RELEASE )
          => /\ By(emitted', i) =
                    IF /\ InsideNext(i)
                       /\ ~m_controls[i].m_touchScreenInHoldEvent
                       /\ ScreenElapsed(i) < TAP_THRESHOLD
                       /\ ScreenDistance(i) < JITTER_THRESHOLD
                    THEN TapAt(i)
                    ELSE << >>
             /\ m_controls'[i].m_touchId = NO_TOUCH
      ]_vars

(* a release inside the rectangle, TAP_THRESHOLD or more after the start of
   the touch, made the touch screen control emit nothing *)
C7_Witness ==
    /\ event.type = SCREEN_EVENT_MTOUCH_RELEASE
    /\ touchPointOwner \in Controls
    /\ m_controls[touchPointOwner].m_type = TOUCHSCREEN
    /\ EventInside(touchPointOwner)
    /\ event.timestamp - m_controls[touchPointOwner].m_touchScreenStartTime
           >= TAP_THRESHOLD
    /\ emitted = << >>

(* ---------------- C8 ---------------- *)
(* control i reported a hold for touch_id and touch_id has only moved
   since *)
HoldReported(i, touch_id) ==
    \/ /\ m_controls[i].m_touchId = touch_id
       /\ m_controls[i].m_touchScreenInHoldEvent
    \/ /\ drift.control = i
       /\ drift.touch_id = touch_id
       /\ drift.held

(* the hold case of the touch screen switch for the event being dispatched *)
HoldDue(i) ==
    /\ m_controls[i].m_type = TOUCHSCREEN
    /\ Owns(i)
    /\ event'.type = SCREEN_EVENT_MTOUCH_MOVE
    /\ InsideNext(i)
    /\ ~m_controls[i].m_touchScreenInMoveEvent
    /\ ~m_controls[i].m_touchScreenInHoldEvent
    /\ ScreenElapsed(i) > 2 * TAP_THRESHOLD
    /\ ScreenDistance(i) <= JITTER_THRESHOLD

(* C8 as the specification states it: the hold is reported once, and after
   it the control emits nothing for that touch until the touch is released. *)
C8_SilentUntilRelease ==
    [][ \A i \in Controls :
          /\ HoldDue(i) => By(emitted', i) = HoldAt(i)
          /\ ( /\ HoldReported(i, event'.touch_id)
               /\ event'.type # SCREEN_EVENT_MTOUCH_RELEASE )
               => By(emitted', i) = << >>
      ]_vars

(* C8: a move inside the rectangle, more than 2*TAP_THRESHOLD after the
   start of a touch that is neither in move mode nor in hold and within the
   jitter distance, emits exactly one hold and sets the hold flag; the flag
   stays set, and the control emits nothing, for as long as the control owns
   the touch, that is until a release or an event outside the rectangle. A
   hold is emitted only by the step that sets the flag. *)
C8_SilentWhileOwned ==
    [][ \A i \in Controls :
          /\ HoldDue(i)
               => /\ By(emitted', i) = HoldAt(i)
                  /\ m_controls'[i].m_touchScreenInHoldEvent
          /\ m_controls[i].m_touchScreenInHoldEvent
               => /\ m_controls[i].m_touchId # NO_TOUCH
                  /\ By(emitted', i) = << >>
                  /\ m_controls'[i].m_touchScreenInHoldEvent
                         = ~EndsOwnership(i)
          /\ (\E k \in 1 .. Len(By(emitted', i)) :
                  By(emitted', i)[k].hold = 1)
               => /\ ~m_controls[i].m_touchScreenInHoldEvent
                  /\ m_controls'[i].m_touchScreenInHoldEvent
      ]_vars

(* a move beyond the jitter distance, inside the rectangle, was swallowed by
   a touch screen control in hold *)
C8_Witness ==
    /\ event.type = SCREEN_EVENT_MTOUCH_MOVE
    /\ touchPointOwner \in Controls
    /\ m_controls[touchPointOwner].m_type = TOUCHSCREEN
    /\ m_controls[touchPointOwner].m_touchScreenInHoldEvent
    /\ EventInside(touchPointOwner)
    /\ distance(m_controls[touchPointOwner], event.x, event.y)
           > JITTER_THRESHOLD
    /\ emitted = << >>

(* ---------------- C9 ---------------- *)
(* control i entered move mode for touch_id and touch_id has only moved
   since *)
MoveModeEntered(i, touch_id) ==
    \/ /\ m_controls[i].m_touchId = touch_id
       /\ m_controls[i].m_touchScreenInMoveEvent
    \/ /\ drift.control = i
       /\ drift.touch_id = touch_id
       /\ drift.moved

(* the move case of the touch screen switch for the event being dispatched *)
MoveDue(i) ==
    /\ m_controls[i].m_type = TOUCHSCREEN
    /\ Owns(i)
    /\ event'.type = SCREEN_EVENT_MTOUCH_MOVE
    /\ InsideNext(i)
    /\ ~m_controls[i].m_touchScreenInHoldEvent
    /\ \/ m_controls[i].m_touchScreenInMoveEvent
       \/ ScreenDistance(i) > JITTER_THRESHOLD

(* C9 as the specification states it: a far move enters move mode and emits
   move(x,y), and from then on every in-bounds move for that touch emits
   move(x,y) until the touch is released. *)
C9_MovesUntilRelease ==
    [][ \A i \in Controls :
          /\ MoveDue(i) => By(emitted', i) = MoveAt(i)
          /\ ( /\ m_controls[i].m_type = TOUCHSCREEN
               /\ MoveModeEntered(i, event'.touch_id)
               /\ event'.type = SCREEN_EVENT_MTOUCH_MOVE
               /\ InsideNext(i) )
               => By(emitted', i) = MoveAt(i)
      ]_vars

(* C9: for a touch screen control that owns the touch and is not in hold, an
   in-bounds move that is beyond JITTER_THRESHOLD from the start position, or
   that arrives in move mode, emits exactly move(x,y) and leaves the control
   in move mode; move mode excludes hold and lasts for as long as the control
   owns the touch, that is until a release or an event outside the
   rectangle. *)
C9_MovesWhileOwned ==
    [][ \A i \in Controls :
          /\ MoveDue(i)
               => /\ By(emitted', i) = MoveAt(i)
                  /\ m_controls'[i].m_touchScreenInMoveEvent
                  /\ m_controls'[i].m_touchId = event'.touch_id
          /\ m_controls[i].m_touchScreenInMoveEvent
               => /\ m_controls[i].m_touchId # NO_TOUCH
                  /\ ~m_controls[i].m_touchScreenInHoldEvent
                  /\ m_controls'[i].m_touchScreenInMoveEvent
                         = ~EndsOwnership(i)
      ]_vars

(* in move mode, a move back within the jitter distance, later than
   2*TAP_THRESHOLD, was reported as a move *)
C9_Witness ==
    /\ event.type = SCREEN_EVENT_MTOUCH_MOVE
    /\ touchPointOwner \in Controls
    /\ m_controls[touchPointOwner].m_type = TOUCHSCREEN
    /\ m_controls[touchPointOwner].m_touchScreenInMoveEvent
    /\ distance(m_controls[touchPointOwner], event.x, event.y)
           <= JITTER_THRESHOLD
    /\ event.timestamp - m_controls[touchPointOwner].m_touchScreenStartTime
           > 2 * TAP_THRESHOLD
    /\ Len(emitted) = 1 /\ emitted[1].tap = 0 /\ emitted[1].hold = 0

(* ---------------- C10 ---------------- *)
(* C10: for a touch area control that owns the touch, a release inside the
   rectangle less than TAP_THRESHOLD after the recorded down time emits tap()
   only and leaves the anchor alone; any other event inside the rectangle
   emits the relative motion from the anchor exactly when the anchor moved,
   and the anchor is the event position afterwards. *)
C10_TouchAreaTapOrMotion ==
    [][ \A i \in Controls :
          ( /\ m_controls[i].m_type = TOUCHAREA
            /\ Owns(i)
            /\ InsideNext(i) )
          => LET c  == m_controls[i]
                 dx == event'.x - c.m_last_x
                 dy == event'.y - c.m_last_y
             IN  IF /\ event'.type = SCREEN_EVENT_MTOUCH_RELEASE
                    /\ event'.timestamp - c.m_touchDownTime < TAP_THRESHOLD
                 THEN /\ By(emitted', i) = Invoke("tap", i, "", 0, 0, 0, 0)
                      /\ m_controls'[i].m_last_x = c.m_last_x
                      /\ m_controls'[i].m_last_y = c.m_last_y
                 ELSE /\ By(emitted', i) =
                            IF dx # 0 \/ dy # 0
                            THEN Invoke("touch", i, "", dx, dy, 0, 0)
                            ELSE << >>
                      /\ m_controls'[i].m_last_x = event'.x
                      /\ m_controls'[i].m_last_y = event'.y
      ]_vars

(* an early release away from the anchor was reported as a tap and the anchor
   stayed where it was *)
C10_Witness ==
    /\ event.type = SCREEN_EVENT_MTOUCH_RELEASE
    /\ touchPointOwner \in Controls
    /\ m_controls[touchPointOwner].m_type = TOUCHAREA
    /\ EventInside(touchPointOwner)
    /\ m_controls[touchPointOwner].m_last_x # event.x
    /\ event.timestamp - m_controls[touchPointOwner].m_touchDownTime
           < TAP_THRESHOLD
    /\ Len(emitted) = 1 /\ emitted[1].cb = "tap"


(* ---------------- the configuration session ---------------- *)
SessionActive == m_configWindow # NULL

(* the session moved control i in this step: it was and stays selected and
   the drag anchor advanced, which only the move branch of
   tco_configuration_window_run does *)
Dragged(i) ==
    /\ m_configWindow # NULL
    /\ m_configWindow' # NULL
    /\ m_configWindow[1].m_selected = i
    /\ m_configWindow'[1].m_selected = i
    /\ m_configWindow'[1].m_startPos # m_configWindow[1].m_startPos

InSurface(control, size) ==
    /\ control.m_x >= 0
    /\ control.m_y >= 0
    /\ control.m_x + control.m_width <= size[1]
    /\ control.m_y + control.m_height <= size[2]

FitsSurface(control, size) ==
    /\ control.m_width <= size[1]
    /\ control.m_height <= size[2]

(* C11 as stated: a control the session moved lies inside the surface,
   whatever its size. *)
C11_ClampedForEverySize ==
    [][\A i \in DOMAIN m_controls :
          Dragged(i) => InSurface(m_controls'[i], m_configWindow[1].m_size)]_vars

(* C11 amended: a control the session moved, and which is no wider and no
   taller than the surface, lies inside the surface: x >= 0, y >= 0,
   x + width <= surface_width and y + height <= surface_height. *)
C11_ClampedWhenItFits ==
    [][\A i \in DOMAIN m_controls :
          (Dragged(i) /\ FitsSurface(m_controls[i], m_configWindow[1].m_size))
              => InSurface(m_controls'[i], m_configWindow[1].m_size)]_vars

(* a selected control was dragged into the far corner of the surface and
   stopped at both upper clamps *)
C11_Witness ==
    /\ SessionActive
    /\ \E i \in DOMAIN m_controls :
          /\ m_configWindow[1].m_selected = i
          /\ m_controls[i].m_x > 0
          /\ m_controls[i].m_y > 0
          /\ m_controls[i].m_x + m_controls[i].m_width = m_configWindow[1].m_size[1]
          /\ m_controls[i].m_y + m_controls[i].m_height = m_configWindow[1].m_size[2]

(* the event of a touch on the screen *)
TouchEvent(type, touch_id, pos) ==
    <<bps_event("screen", type, touch_id, pos[1], pos[2], 0)>>

(* a control is selected: the session is dragging it *)
Dragging == SessionActive /\ m_configWindow[1].m_selected # 0

(* the session is idle: nothing selected and both positions zero *)
Idle(window) ==
    /\ window.m_selected = 0
    /\ window.m_startPos = <<0, 0>>
    /\ window.m_endPos = <<0, 0>>

(* the selected control after the clamped move by pos minus the drag anchor *)
MovedTo(pos) ==
    LET window == m_configWindow[1]
    IN  tco_control_move(m_controls[window.m_selected],
                         pos[1] - window.m_startPos[1],
                         pos[2] - window.m_startPos[2],
                         window.m_size[1], window.m_size[2]).control

(* C12: a release of touch id 0 while a control is dragged applies the
   clamped move for the final delta (release position minus drag anchor) to
   the selected control, and leaves the session idle. *)
C12_ReleaseAppliesFinalDelta ==
    [][\A pos \in ConfigPositions :
          (/\ Dragging
           /\ tco_handle_events(TouchEvent(SCREEN_EVENT_MTOUCH_RELEASE, 0, pos),
                                SurfaceSize))
          => /\ m_controls' =
                   [m_controls EXCEPT ![m_configWindow[1].m_selected] = MovedTo(pos)]
             /\ m_configWindow' # NULL
             /\ Idle(m_configWindow'[1])]_vars

(* the step handled a touch event of the given touch ids *)
TouchInput(ids) ==
    /\ input' # NULL
    /\ input'[1].domain = "screen"
    /\ input'[1].code \in TouchEventTypes
    /\ input'[1].touch_id \in ids

Rectangle(control) ==
    <<control.m_x, control.m_y, control.m_width, control.m_height>>

RectanglesKept ==
    /\ DOMAIN m_controls' = DOMAIN m_controls
    /\ \A i \in DOMAIN m_controls :
          Rectangle(m_controls'[i]) = Rectangle(m_controls[i])

(* C13: while a configuration session is active, a touch event whose touch
   id is not 0 changes neither the selected control, nor the start and
   current positions, nor any control's rectangle. *)
C13_OtherTouchIdsIgnored ==
    [][(SessionActive /\ TouchInput(ConfigTouchIds \ {0}))
          => /\ m_configWindow' = m_configWindow
             /\ RectanglesKept]_vars

(* a second finger moved while the first one was dragging a control that had
   already left its place *)
C13_Witness ==
    /\ Dragging
    /\ input = <<[domain |-> "screen", code |-> SCREEN_EVENT_MTOUCH_MOVE,
                  touch_id |-> 1]>>
    /\ m_controls[m_configWindow[1].m_selected].m_x > 0
    /\ m_controls[m_configWindow[1].m_selected].m_type = KEY

(* the step ends the configuration session *)
SessionExit == SessionActive /\ m_configWindow' = NULL

(* the file at the path holds the layout document of the controls *)
Persisted(fs, path, controls) ==
    /\ path \in DOMAIN fs
    /\ fs[path] = <<cJSON_Print(SaveRoot(controls))>>

(* C14: every exit from a configuration session, by swipe-down or by
   app-exit, destroys the session and leaves the current control rectangles
   in the layout document. *)
C14_EveryExitSaves ==
    [][(SessionExit /\ m_user_control_path # NULL)
          => Persisted(files', m_user_control_path[1], m_controls')]_vars

(* the active touch id and the transient state of a control *)
Transient(control) ==
    << control.m_touchId, control.m_last_x, control.m_last_y,
       control.m_touchDownTime, control.m_start_x, control.m_start_y,
       control.m_touchScreenStartTime, control.m_touchScreenInMoveEvent,
       control.m_touchScreenInHoldEvent >>

TransientKept ==
    /\ DOMAIN m_controls' = DOMAIN m_controls
    /\ \A i \in DOMAIN m_controls :
          Transient(m_controls'[i]) = Transient(m_controls[i])

(* C15: while a configuration session exists, no event reaches touch
   dispatch: from session entry to session exit no callback is invoked, and
   the ownership table and every control's active touch id and transient
   state stay as they were. *)
C15_SessionKeepsTouchState ==
    [][SessionActive => (UNCHANGED touchVars /\ TransientKept)]_vars

(* a touch of the first finger was handed to a session that drags a control
   while a control still owns a touch from before the session *)
C15_Witness ==
    /\ Dragging
    /\ input # NULL
    /\ input[1].code = SCREEN_EVENT_MTOUCH_MOVE
    /\ input[1].touch_id = 0
    /\ m_touch_owners # << >>
    /\ \E i \in DOMAIN m_controls : m_controls[i].m_touchId # NO_TOUCH
    /\ m_controls[m_configWindow[1].m_selected].m_x > 0

(* ---------------- layout files ---------------- *)
(* the step was a call of the given function of the public API *)
Called(call) == input' # NULL /\ input'[1].call = call

(* the path of the file tco_context_load_controls takes its text from, or
   NULL *)
ReadPath(fs, default_fileName, user_fileName) ==
    IF tco_read_text_file(fs, user_fileName) # NULL THEN user_fileName
    ELSE IF tco_read_text_file(fs, default_fileName) # NULL THEN default_fileName
    ELSE NULL

(* the controls a save wrote to the file the load of this step read, or NULL
   when no save wrote that file *)
SavedRead ==
    LET p == ReadPath(files, input'[1].default_fileName, input'[1].user_fileName)
    IN  IF p = NULL THEN NULL ELSE saved[p[1]]

(* C16: loading a saved document into an empty overlay succeeds and
   reproduces, for every control and in the same order, the type, id,
   rectangle, type-specific properties and label of the controls saved. *)
C16_SaveThenLoad ==
    [][(Called("tco_loadcontrols") /\ m_controls = << >> /\ SavedRead # NULL)
          => /\ retCode' = TCO_SUCCESS
             /\ ~fault'
             /\ StaticOf(m_controls') = SavedRead[1]]_vars

(* the user file, written by a save, was loaded into an empty overlay and
   gave a key with its properties and its label with an image *)
C16_Witness ==
    /\ input # NULL
    /\ input[1].call = "tco_loadcontrols"
    /\ input[1].user_fileName = <<UserPath>>
    /\ saved[UserPath] # NULL
    /\ StaticOf(m_controls) = saved[UserPath][1]
    /\ Len(m_controls) = 2
    /\ m_controls[1].m_type = KEY
    /\ m_controls[1].m_properties = <<97, 4, 30, 65>>
    /\ m_controls[1].m_label # NULL
    /\ m_controls[1].m_label[1].m_image_file = <<"key.png">>
    /\ m_controls[2].m_type = MOUSEBUTTON
    /\ m_controls[2].m_properties = <<1, 2, 0, 0>>

(* the text the load of this step read, or NULL *)
TextRead ==
    LET p == ReadPath(files, input'[1].default_fileName, input'[1].user_fileName)
    IN  IF p = NULL THEN NULL ELSE files[p[1]]

(* the text is JSON whose version member is not the supported version *)
OtherVersion(text) ==
    /\ cJSON_Parse(text) # NULL
    /\ tco_json_get_int(cJSON_Parse(text)[1], "version") # TCO_FILE_VERSION

(* C17: loading a document whose version differs from the supported version
   returns failure and creates no control. *)
C17_VersionMismatchFails ==
    [][(Called("tco_loadcontrols") /\ TextRead # NULL /\ OtherVersion(TextRead[1]))
          => /\ retCode' = TCO_FAILURE
             /\ m_controls' = m_controls]_vars

(* a user file of the next version, with a well-formed control in it, was
   loaded and refused *)
C17_Witness ==
    /\ input # NULL
    /\ input[1].call = "tco_loadcontrols"
    /\ input[1].user_fileName = <<UserPath>>
    /\ files[UserPath] =
           <<Document(TCO_FILE_VERSION + 1, Array(<<TouchAreaEntry>>))>>
    /\ retCode = TCO_FAILURE
    /\ m_controls = << >>

(* the controls member is missing, no array, or has an entry that is no
   object *)
BadControls(root) ==
    LET controls == cJSON_GetObjectItem(root, "controls")
    IN  \/ controls = NULL
        \/ controls[1].type # cJSON_Array
        \/ \E i \in DOMAIN controls[1].v : controls[1].v[i].type # cJSON_Object

(* the text is not JSON, or its structure is not that of a layout *)
Malformed(text) ==
    \/ cJSON_Parse(text) = NULL
    \/ BadControls(cJSON_Parse(text)[1])

(* C18: loading a document that is unparseable, has a missing or non-array
   controls member, or has a controls entry that is not an object, at any
   position, returns failure and creates no control. *)
C18_MalformedFailsWhole ==
    [][(Called("tco_loadcontrols") /\ TextRead # NULL /\ Malformed(TextRead[1]))
          => /\ retCode' = TCO_FAILURE
             /\ m_controls' = m_controls]_vars

(* the text of the user file when that file can be read and is JSON, else
   the text of the default file, else NULL *)
PreferredText(fs, default_fileName, user_fileName) ==
    LET user_text == tco_read_text_file(fs, user_fileName)
    IN  IF user_text # NULL /\ cJSON_Parse(user_text[1]) # NULL
        THEN user_text
        ELSE tco_read_text_file(fs, default_fileName)

(* C19: load_controls(default_path, user_path) loads the user file when it
   is present and parseable, and in every other case (user file absent,
   unreadable or unparseable) loads the default file. *)
C19_FallsBackToDefault ==
    [][Called("tco_loadcontrols")
          => LET text == PreferredText(files, input'[1].default_fileName,
                                       input'[1].user_fileName)
             IN  IF text = NULL
                 THEN retCode' = TCO_FAILURE /\ m_controls' = m_controls
                 ELSE /\ retCode' = LoadRoot(m_controls, text[1]).retCode
                      /\ m_controls' = LoadRoot(m_controls, text[1]).controls]_vars

(* the files other than the one at the path stay as they were *)
OthersKept(path) ==
    /\ DOMAIN files' = DOMAIN files \cup {path}
    /\ \A p \in DOMAIN files \ {path} : files'[p] = files[p]

(* the save of this step wrote the layout of the controls to the path, and
   to no other file *)
WroteTo(path) ==
    /\ Persisted(files', path, m_controls)
    /\ OthersKept(path)
    /\ retCode' = TCO_SUCCESS

(* C20: save_controls with an explicit path writes to that path; with none
   it writes to the user path given to the last load_controls call, whatever
   file that load read; with neither it returns success and writes and
   changes nothing. *)
C20_SavePath ==
    [][/\ Called("tco_loadcontrols")
          => m_user_control_path' = input'[1].user_fileName
       /\ Called("tco_savecontrols")
          => /\ UNCHANGED <<m_controls, touchVars, m_configWindow,
                            m_user_control_path, fault>>
             /\ IF input'[1].user_fileName # NULL
                THEN WroteTo(input'[1].user_fileName[1])
                ELSE IF m_user_control_path # NULL
                THEN WroteTo(m_user_control_path[1])
                ELSE retCode' = TCO_SUCCESS /\ UNCHANGED files]_vars

(* a save without a path wrote the controls of the default layout to the
   user path of the load *)
C20_Witness ==
    /\ input = <<[call |-> "tco_savecontrols", user_fileName |-> NULL]>>
    /\ m_user_control_path = <<UserPath>>
    /\ Len(m_controls) = 2
    /\ m_controls[1].m_type = KEY
    /\ Persisted(files, UserPath, m_controls)
    /\ files[DefaultPath] = <<DefaultDocument>>

(* ---------------- capacity ---------------- *)
(* the controls the step found are still there, in their places *)
ExistingKept ==
    /\ Len(m_controls') >= Len(m_controls)
    /\ \A i \in DOMAIN m_controls : m_controls'[i] = m_controls[i]

(* what tco_context_create_control does to the controls of this state for a
   dpad at the given place *)
CreateHere(id, rect) ==
    tco_context_create_control(m_controls, id, "dpad", rect[1], rect[2],
                               rect[3], rect[4])

(* C21: create_control on a context that holds MAX_TCO_CONTROLS controls is
   rejected and leaves the count and every control as they were; below the
   maximum it appends the new control at the end; no state holds more than
   the maximum, and a load keeps the controls it found. *)
C21_CapacityKept ==
    [][/\ Len(m_controls') <= MAX_TCO_CONTROLS
       /\ Called("tco_loadcontrols") => ExistingKept
       /\ \A rect \in {LeftRect, WideRect} :
             IF Len(m_controls') >= MAX_TCO_CONTROLS
             THEN (CreateHere(9, rect).c = 0)' /\ (CreateHere(9, rect).controls)' = m_controls'
             ELSE /\ (CreateHere(9, rect).c)' = Len(m_controls') + 1
                  /\ (CreateHere(9, rect).controls)' =
                        Append(m_controls',
                               tco_control_alloc(9, "dpad", rect[1], rect[2],
                                                 rect[3], rect[4]))]_vars

(* a load filled the context and its next create_control was rejected *)
C21_Witness ==
    /\ Len(m_controls) = MAX_TCO_CONTROLS
    /\ input # NULL
    /\ input[1].call = "tco_loadcontrols"
    /\ m_controls[1].m_type = KEY
    /\ m_controls[MAX_TCO_CONTROLS].m_type = DPAD
    /\ fault

(* the text is a layout of the supported version all of whose entries are
   objects naming a type, with more entries than the context has room for *)
Overfull(text, controls) ==
    /\ ~Malformed(text)
    /\ ~OtherVersion(text)
    /\ LET array == cJSON_GetObjectItem(cJSON_Parse(text)[1], "controls")[1].v
       IN  /\ \A i \in DOMAIN array : tco_json_get_str(array[i], "type") # NULL
           /\ Len(controls) + Len(array) > MAX_TCO_CONTROLS

(* C22: a load whose entries exceed the maximum control count rejects the
   excess entries one by one and completes: it returns success, the process
   lives, and the context holds the maximum number of controls, those it had
   among them. *)
C22_LoadSurvivesOverflow ==
    [][(Called("tco_loadcontrols") /\ TextRead # NULL
            /\ Overfull(TextRead[1], m_controls))
          => /\ ~fault'
             /\ retCode' = TCO_SUCCESS
             /\ Len(m_controls') = MAX_TCO_CONTROLS
             /\ ExistingKept]_vars

(* ---------------- the status of a touch event ---------------- *)
(* after the step a control owns the touch id: the table has an entry for it
   and the control of the entry has it as its m_touchId *)
OwnedAfter(touch_id) ==
    \E p \in DOMAIN m_touch_owners' :
        /\ m_touch_owners'[p].touch_id = touch_id
        /\ m_controls'[m_touch_owners'[p].control].m_touchId = touch_id

(* C23: with no configuration session, a touch event returns TCO_SUCCESS
   exactly when a control handled it, that is when tco_context_touch_event
   returned true and a control owns the touch id afterwards, and
   TCO_UNHANDLED exactly when none did; it never returns TCO_FAILURE. *)
C23_HandledOrUnhandled ==
    [][(~SessionActive /\ TouchInput(ConfigTouchIds))
          => /\ retCode' \in {TCO_SUCCESS, TCO_UNHANDLED}
             /\ (retCode' = TCO_SUCCESS) <=> handled'
             /\ (retCode' = TCO_UNHANDLED) <=> ~handled'
             /\ handled' <=> OwnedAfter(input'[1].touch_id)]_vars

(* a touch-down that no control contains was reported as unhandled *)
C23_Witness ==
    /\ ~SessionActive
    /\ input = <<[domain |-> "screen", code |-> SCREEN_EVENT_MTOUCH_TOUCH,
                  touch_id |-> 0]>>
    /\ event.type = SCREEN_EVENT_MTOUCH_TOUCH
    /\ \A i \in DOMAIN m_controls :
          ~tco_control_in_bounds(m_controls[i], event.x, event.y)
    /\ m_controls # << >>
    /\ retCode = TCO_UNHANDLED

(* ---------------- hand-off of a touch id ---------------- *)

(* the first control of a set in creation order *)
FirstOf(S) == CHOOSE j \in S : \A k \in S : j <= k

(* the controls other than o that contain the event being dispatched *)
Containing(o) == { j \in Controls \ {o} : InsideNext(j) }

(* those of them that handle no other contact point *)
Free(o) == { j \in Containing(o) : m_controls[j].m_touchId = NO_TOUCH }

(* control n is the owner of the touch id of the event after this step and
   has emitted the down event of its type *)
TakesOver(n) ==
    /\ m_controls'[n].m_touchId = event'.touch_id
    /\ OwnerEntries(m_touch_owners', event'.touch_id) = {1}
    /\ m_touch_owners'[1] = touch_owner(n, event'.touch_id)
    /\ HasUpSemantic(m_controls[n].m_type)
          => /\ Len(By(emitted', n)) = 1
             /\ By(emitted', n)[1].event = "DOWN"
             /\ By(emitted', n)[1].cb = CallbackOf(m_controls[n].m_type)

(* the touch id of the event has no owner after this step *)
LeftUnowned ==
    /\ \A j \in Controls : m_controls'[j].m_touchId # event'.touch_id
    /\ OwnerEntries(m_touch_owners', event'.touch_id) = {}

(* the former owner o is not tried again: it stays without a touch and emits
   no down event *)
NotRetried(o) ==
    /\ m_controls'[o].m_touchId = NO_TOUCH
    /\ Len(Downs(emitted', o)) = 0
    /\ EntriesOf(m_touch_owners', o) = {}

(* C24 as the specification states it: when the owner gives a touch id up at
   an event outside its rectangle, a control containing the point becomes
   the new owner and emits its down event in the same dispatch, otherwise
   the touch id is left unowned. *)
C24_ContainingControlTakesOver ==
    [][ \A o \in Controls :
          (Owns(o) /\ ~InsideNext(o))
          => /\ NotRetried(o)
             /\ IF Containing(o) # {}
                THEN \E n \in Containing(o) : TakesOver(n)
                ELSE LeftUnowned
      ]_vars

(* C24: when the owner gives a touch id up at an event outside its
   rectangle, the same event is offered to the other controls in creation
   order and the former owner is not tried again: if the event is a touch or
   move event, the first control that contains the point and handles no other
   contact point becomes the new owner and emits its down event in the same
   dispatch; otherwise (a release event, or every containing control busy)
   the touch id is left unowned and the other controls are unchanged. *)
C24_FreeControlTakesOver ==
    [][ \A o \in Controls :
          (Owns(o) /\ ~InsideNext(o))
          => /\ NotRetried(o)
             /\ touchPointOwner' = o
             /\ IF event'.type # SCREEN_EVENT_MTOUCH_RELEASE /\ Free(o) # {}
                THEN /\ TakesOver(FirstOf(Free(o)))
                     /\ handled'
                     /\ \A j \in Controls \ {o, FirstOf(Free(o))} :
                           m_controls'[j] = m_controls[j]
                ELSE /\ LeftUnowned
                     /\ ~handled'
                     /\ \A j \in Controls \ {o} : m_controls'[j] = m_controls[j]
      ]_vars

(* a move out of control 1 into control 2 alone: control 1 was found as the
   owner and released the key or button, control 2 pressed its own *)
C24_Witness ==
    /\ event.type = SCREEN_EVENT_MTOUCH_MOVE
    /\ touchPointOwner = 1
    /\ ~EventInside(1)
    /\ 2 \in Controls /\ EventInside(2)
    /\ Len(Ups(emitted, 1)) = 1
    /\ Len(Downs(emitted, 2)) = 1
    /\ m_touch_owners # << >>
    /\ m_touch_owners[1] = touch_owner(2, event.touch_id)

(* ---------------- a touch id without an owner ---------------- *)

(* no control owns the touch id of the event being dispatched *)
NoOwner ==
    /\ \A j \in Controls : m_controls[j].m_touchId # event'.touch_id
    /\ OwnerEntries(m_touch_owners, event'.touch_id) = {}

(* the controls whose tco_control_handle_touch returns true for the event
   being dispatched *)
Accepting ==
    { j \in Controls :
        tco_control_handle_touch(m_controls[j], j, event'.type,
                                 event'.touch_id, event'.x, event'.y,
                                 event'.timestamp).ret }

(* C25: for a touch id without an owner the controls are tried in creation
   order; the first control whose tco_control_handle_touch returns true
   becomes the owner and gets the head entry of the table, every other
   control is left as it was and emits nothing, so at most one down event is
   emitted per event; when no control returns true nothing changes. *)
C25_FirstInCreationOrderWins ==
    [][ NoOwner
        => /\ touchPointOwner' = 0
           /\ handled' <=> Accepting # {}
           /\ IF Accepting # {}
              THEN LET n == FirstOf(Accepting) IN
                   /\ m_controls'[n].m_touchId = event'.touch_id
                   /\ m_touch_owners' =
                         <<touch_owner(n, event'.touch_id)>> \o m_touch_owners
                   /\ \A j \in Controls \ {n} :
                         /\ m_controls'[j] = m_controls[j]
                         /\ By(emitted', j) = << >>
                   /\ Len(SelectSeq(emitted', LAMBDA e : e.event = "DOWN")) <= 1
              ELSE /\ m_controls' = m_controls
                   /\ m_touch_owners' = m_touch_owners
                   /\ emitted' = << >>
      ]_vars

(* a touch-down where both controls overlap went to control 1 alone, while
   nothing else was being touched *)
C25_Witness ==
    /\ event.type = SCREEN_EVENT_MTOUCH_TOUCH
    /\ touchPointOwner = 0
    /\ 2 \in Controls /\ EventInside(1) /\ EventInside(2)
    /\ m_controls[1].m_touchId = event.touch_id
    /\ m_controls[2].m_touchId = NO_TOUCH
    /\ m_touch_owners = <<touch_owner(1, event.touch_id)>>
    /\ Len(emitted) = 1 /\ emitted[1].ctl = 1 /\ emitted[1].event = "DOWN"

(* ---------------- a control handling another contact point ---------------- *)

(* control j handles a contact point other than the one of the event being
   dispatched *)
OwnedByOther(j) ==
    /\ m_controls[j].m_touchId # NO_TOUCH
    /\ m_controls[j].m_touchId # event'.touch_id

(* C26: tco_control_handle_touch on a control that handles touch id s, called
   with another touch id, returns false, invokes no callback and leaves
   every field of the control as it was, whatever the type and position of
   the event; dispatching such an event leaves the control unchanged. *)
C26_OtherTouchIdChangesNothing ==
    [][ \A j \in Controls :
          OwnedByOther(j)
          => /\ tco_control_handle_touch(m_controls[j], j, event'.type,
                                         event'.touch_id, event'.x, event'.y,
                                         event'.timestamp)
                  = Result(m_controls[j], FALSE, << >>)
             /\ m_controls'[j] = m_controls[j]
             /\ By(emitted', j) = << >>
             /\ { m_touch_owners'[p].touch_id : p \in EntriesOf(m_touch_owners', j) }
                  = { m_touch_owners[p].touch_id : p \in EntriesOf(m_touch_owners, j) }
      ]_vars

(* a second finger was released inside a control that is handling the first
   one; nobody handled it and the control still handles the first *)
C26_Witness ==
    /\ event.type = SCREEN_EVENT_MTOUCH_RELEASE
    /\ ~handled
    /\ emitted = << >>
    /\ \E j \in Controls :
          /\ EventInside(j)
          /\ m_controls[j].m_touchId \notin {NO_TOUCH, event.touch_id}
          /\ EntriesOf(m_touch_owners, j) # {}

(* ---------------- a control that handles no contact point ---------------- *)

(* positions on, just inside of and just outside of the edges of a control *)
EdgeProbes(c) ==
    { c.m_x - 1, c.m_x, c.m_x + c.m_width, c.m_x + c.m_width + 1 }
        \X { c.m_y - 1, c.m_y, c.m_y + c.m_height, c.m_y + c.m_height + 1 }

(* left <= x <= left + width and top <= y <= top + height *)
WithinInclusive(c, x, y) ==
    /\ c.m_x <= x /\ x <= c.m_x + c.m_width
    /\ c.m_y <= y /\ y <= c.m_y + c.m_height

(* r is what the Down column of the table of semantic events asks of control
   c with index j: a key, dpad or mouse button down callback, or for a touch
   area the down time and the anchor and for a touch screen the start
   position and time recorded, with no callback *)
DownSemantic(r, c, j, touch_id, x, y, timestamp) ==
    LET owned == [c EXCEPT !.m_touchId = touch_id] IN
    CASE HasUpSemantic(c.m_type) ->
           /\ r.control = owned
           /\ Len(r.out) = 1
           /\ r.out[1].ctl = j
           /\ r.out[1].cb = CallbackOf(c.m_type)
           /\ r.out[1].event = "DOWN"
      [] c.m_type = TOUCHAREA ->
           /\ r.control = [owned EXCEPT !.m_touchDownTime = timestamp,
                                         !.m_last_x = x, !.m_last_y = y]
           /\ r.out = << >>
      [] OTHER ->
           /\ r.control = [owned EXCEPT !.m_touchScreenStartTime = timestamp,
                                         !.m_start_x = x, !.m_start_y = y]
           /\ r.out = << >>

(* C27: tco_control_handle_touch on a control that handles no contact point
   returns true, sets m_touchId to the touch id of the event and performs
   the down semantic of the control's type exactly when the event is a touch
   or move event with left <= x <= left + width and top <= y <= top +
   height; for a release event or a point outside it returns false, invokes
   no callback and leaves the control unchanged. *)
C27_UnownedAcceptsInsideInclusive ==
    \A j \in Controls :
        m_controls[j].m_touchId = NO_TOUCH
        => \A type \in TouchEventTypes, touch_id \in TouchIds,
              pos \in EdgeProbes(m_controls[j]),
              timestamp \in {event.timestamp, 2 * TAP_THRESHOLD} :
              LET c == m_controls[j]
                  r == tco_control_handle_touch(c, j, type, touch_id,
                                                pos[1], pos[2], timestamp)
              IN  IF /\ type # SCREEN_EVENT_MTOUCH_RELEASE
                     /\ WithinInclusive(c, pos[1], pos[2])
                  THEN /\ r.ret
                       /\ r.control.m_touchId = touch_id
                       /\ DownSemantic(r, c, j, touch_id, pos[1], pos[2],
                                       timestamp)
                  ELSE r = Result(c, FALSE, << >>)

(* a touch-down on the right edge of control 1, x = left + width, made it the
   owner of the touch id *)
C27_Witness ==
    /\ event.type = SCREEN_EVENT_MTOUCH_TOUCH
    /\ touchPointOwner = 0
    /\ event.x = m_controls[1].m_x + m_controls[1].m_width
    /\ m_controls[1].m_touchId = event.touch_id
    /\ m_touch_owners # << >>
    /\ m_touch_owners[1].control = 1

(* ---------------- selecting and dragging a control ---------------- *)

(* the controls whose rectangle contains the position *)
Hit(pos) ==
    { i \in DOMAIN m_controls : WithinInclusive(m_controls[i], pos[1], pos[2]) }

(* C28: in a configuration session with nothing selected, a touch-down of
   touch id 0 selects the first control in creation order whose rectangle
   contains the touch point and sets start = current = touch position; when
   no control contains the point the session stays idle with both positions
   zero.  A touch-down of touch id 0 while a control is selected changes
   neither the selection nor the positions.  No rectangle changes. *)
C28_TouchDownSelects ==
    [][\A pos \in ConfigPositions :
          (/\ SessionActive
           /\ tco_handle_events(TouchEvent(SCREEN_EVENT_MTOUCH_TOUCH, 0, pos),
                                SurfaceSize))
          => /\ m_configWindow' # NULL
             /\ RectanglesKept
             /\ IF m_configWindow[1].m_selected # 0
                THEN m_configWindow' = m_configWindow
                ELSE IF Hit(pos) # {}
                THEN /\ m_configWindow'[1].m_selected = FirstOf(Hit(pos))
                     /\ m_configWindow'[1].m_startPos = pos
                     /\ m_configWindow'[1].m_endPos = pos
                ELSE Idle(m_configWindow'[1])]_vars

(* a touch-down of the first finger where both controls overlap selected
   control 1, and nothing has been dragged yet *)
C28_Witness ==
    /\ SessionActive
    /\ input = <<[domain |-> "screen", code |-> SCREEN_EVENT_MTOUCH_TOUCH,
                  touch_id |-> 0]>>
    /\ m_configWindow[1].m_selected = 1
    /\ m_configWindow[1].m_startPos = m_configWindow[1].m_endPos
    /\ Cardinality(Hit(m_configWindow[1].m_startPos)) = 2
    /\ Rectangle(m_controls[1]) = LeftRect

(* the per-axis clamp: floor 0, then ceiling max minus the control's extent *)
Clamp(v, extent, max) ==
    LET floored == IF v < 0 THEN 0 ELSE v
    IN  IF floored > max - extent THEN max - extent ELSE floored

(* C29: in a configuration session with a control selected, a move event of
   touch id 0 to a position other than the drag anchor moves the selected
   control by current - start on each axis, clamped per axis (floor 0,
   ceiling surface dimension - control dimension), leaves its size and every
   other control's rectangle alone, and advances the anchor to the current
   position whether or not the move was clamped. *)
C29_MoveByDeltaClamped ==
    [][\A pos \in ConfigPositions :
          (/\ Dragging
           /\ pos # m_configWindow[1].m_startPos
           /\ tco_handle_events(TouchEvent(SCREEN_EVENT_MTOUCH_MOVE, 0, pos),
                                SurfaceSize))
          => LET window == m_configWindow[1]
                 i == window.m_selected
                 c == m_controls[i]
             IN  /\ DOMAIN m_controls' = DOMAIN m_controls
                 /\ Rectangle(m_controls'[i]) =
                       << Clamp(c.m_x + pos[1] - window.m_startPos[1],
                                c.m_width, window.m_size[1]),
                          Clamp(c.m_y + pos[2] - window.m_startPos[2],
                                c.m_height, window.m_size[2]),
                          c.m_width, c.m_height >>
                 /\ \A j \in DOMAIN m_controls \ {i} :
                       Rectangle(m_controls'[j]) = Rectangle(m_controls[j])
                 /\ m_configWindow' =
                       <<[window EXCEPT !.m_startPos = pos, !.m_endPos = pos]>>
       ]_vars

(* the first finger dragged control 1 from the origin towards the far corner:
   the control stopped at both ceilings, short of the distance the finger
   went, and the anchor is where the finger is *)
C29_Witness ==
    /\ Dragging
    /\ input = <<[domain |-> "screen", code |-> SCREEN_EVENT_MTOUCH_MOVE,
                  touch_id |-> 0]>>
    /\ m_configWindow[1].m_selected = 1
    /\ m_configWindow[1].m_startPos = <<18, 12>>
    /\ m_configWindow[1].m_endPos = <<18, 12>>
    /\ m_controls[1].m_x + m_controls[1].m_width = m_configWindow[1].m_size[1]
    /\ m_controls[1].m_y + m_controls[1].m_height = m_configWindow[1].m_size[2]
    /\ m_controls[1].m_x < 13

(* ---------------- transient state of an unowned control ---------------- *)

(* the control with the transient state tco_control_alloc gave it *)
Neutral(c) ==
    [c EXCEPT !.m_last_x = 0, !.m_last_y = 0, !.m_touchDownTime = 0,
              !.m_start_x = 0, !.m_start_y = 0, !.m_touchScreenStartTime = 0,
              !.m_touchScreenInMoveEvent = FALSE,
              !.m_touchScreenInHoldEvent = FALSE]

(* C30: in every reachable state a control with no active touch id carries
   nothing of the previous gesture into the next one: its move flag and its
   hold flag are false, and whatever event it is offered it answers, emits
   and, when it accepts, ends up exactly as a control with freshly allocated
   transient state would, so a new gesture never starts in move or hold
   mode. *)
C30_UnownedIsNeutral ==
    \A j \in Controls :
        m_controls[j].m_touchId = NO_TOUCH
        => /\ ~m_controls[j].m_touchScreenInMoveEvent
           /\ ~m_controls[j].m_touchScreenInHoldEvent
           /\ \A type \in TouchEventTypes, touch_id \in TouchIds,
                 pos \in Positions,
                 timestamp \in {event.timestamp, 2 * TAP_THRESHOLD} :
                 LET r == tco_control_handle_touch(m_controls[j], j, type,
                              touch_id, pos[1], pos[2], timestamp)
                     n == tco_control_handle_touch(Neutral(m_controls[j]), j,
                              type, touch_id, pos[1], pos[2], timestamp)
                 IN  /\ r.ret = n.ret
                     /\ r.out = n.out
                     /\ r.ret => /\ r.control = n.control
                                 /\ ~r.control.m_touchScreenInMoveEvent
                                 /\ ~r.control.m_touchScreenInHoldEvent

(* a touch screen control lost a touch by a move out of its rectangle after
   it had entered move mode or reported a hold; it is unowned with both flags
   false and its start position still that of the gesture *)
C30_Witness ==
    /\ drift.control \in Controls
    /\ drift.held \/ drift.moved
    /\ m_controls[drift.control].m_type = TOUCHSCREEN
    /\ m_controls[drift.control].m_touchId = NO_TOUCH
    /\ ~m_controls[drift.control].m_touchScreenInMoveEvent
    /\ ~m_controls[drift.control].m_touchScreenInHoldEvent
    /\ m_controls[drift.control].m_start_x # 0

(* ---------------- controls without a label ---------------- *)

LabelLess(control) == control.m_label = NULL

(* the swipe-down gesture of the navigator *)
SwipeDown == <<bps_event("navigator", NAVIGATOR_SWIPE_DOWN, 0, 0, 0, 0)>>

(* C31: entering a configuration session while a control without a label is
   present succeeds, and a move of touch id 0 that drags a selected control
   without a label updates its position by the clamped delta and returns
   success; neither reaches an error state. *)
C31_LabelLessControlsWork ==
    [][ /\ ( /\ ~SessionActive
             /\ \E i \in DOMAIN m_controls : LabelLess(m_controls[i])
             /\ tco_handle_events(SwipeDown, SurfaceSize) )
           => /\ ~fault'
              /\ m_configWindow' # NULL
              /\ retCode' = TCO_SUCCESS
        /\ \A pos \in ConfigPositions :
             ( /\ Dragging
               /\ LabelLess(m_controls[m_configWindow[1].m_selected])
               /\ pos # m_configWindow[1].m_startPos
               /\ tco_handle_events(TouchEvent(SCREEN_EVENT_MTOUCH_MOVE, 0, pos),
                                    SurfaceSize) )
             => /\ ~fault'
                /\ retCode' = TCO_SUCCESS
                /\ Rectangle(m_controls'[m_configWindow[1].m_selected]) =
                      Rectangle(MovedTo(pos))
      ]_vars

(* ---------------- the angle of a DPad ---------------- *)

(* twice the centre of a control: 2 * (left + width / 2), 2 * (top + height / 2) *)
Centre2(control) ==
    << 2 * control.m_x + control.m_width, 2 * control.m_y + control.m_height >>

(* C32: every dpad callback of a DPad control, on down, on an in-bounds move
   and on up, is given the angle of atan2(y - center_y, x - center_x), where
   the centre is (left + width/2, top + height/2) and (x, y) the position of
   the event: the two arguments of atan2, here doubled, are the offsets of the
   event from the centre. *)
C32_DPadAngleFromCentre ==
    [][ \A i \in Controls :
          m_controls[i].m_type = DPAD
          => \A k \in DOMAIN By(emitted', i) :
                LET e == By(emitted', i)[k] IN
                /\ e.cb = "dpad"
                /\ e.event \in {"DOWN", "UP"}
                /\ e.a = 2 * event'.y - Centre2(m_controls[i])[2]
                /\ e.b = 2 * event'.x - Centre2(m_controls[i])[1]
      ]_vars

(* a DPad control released its direction at a move that left it to the left
   of its centre and above it *)
C32_Witness ==
    /\ event.type = SCREEN_EVENT_MTOUCH_MOVE
    /\ touchPointOwner \in Controls
    /\ m_controls[touchPointOwner].m_type = DPAD
    /\ ~EventInside(touchPointOwner)
    /\ Len(By(emitted, touchPointOwner)) = 1
    /\ By(emitted, touchPointOwner)[1].event = "UP"
    /\ By(emitted, touchPointOwner)[1].a < 0
    /\ By(emitted, touchPointOwner)[1].b < 0

(* ---------------- the table and the controls ---------------- *)

(* C33: in every reachable state the ownership table and the controls agree:
   the table holds the entry (t, c) exactly when control c has active touch id
   t; every entry names a control; each control appears in at most one entry
   and the table has no more entries than there are controls. *)
C33_TableAgreesWithControls ==
    /\ \A p \in DOMAIN m_touch_owners :
          /\ m_touch_owners[p].control \in Controls
          /\ m_controls[m_touch_owners[p].control].m_touchId
                = m_touch_owners[p].touch_id
    /\ \A c \in Controls :
          /\ m_controls[c].m_touchId # NO_TOUCH
                => \E p \in DOMAIN m_touch_owners :
                      m_touch_owners[p] =
                          touch_owner(c, m_controls[c].m_touchId)
          /\ Cardinality(EntriesOf(m_touch_owners, c)) <= 1
    /\ Len(m_touch_owners) <= Len(m_controls)

(* both controls handle a contact point, control 1 since the move that was
   dispatched last, and the table holds its entry before that of control 2 *)
C33_Witness ==
    /\ event.type = SCREEN_EVENT_MTOUCH_MOVE
    /\ touchPointOwner = 0
    /\ Len(m_controls) = 2
    /\ m_touch_owners =
          << touch_owner(1, event.touch_id),
             touch_owner(2, m_controls[2].m_touchId) >>
    /\ m_controls[1].m_touchId = event.touch_id
    /\ m_controls[2].m_touchId \notin {NO_TOUCH, event.touch_id}

(* ---------------- release events ---------------- *)

(* the touch ids that have an entry in the table *)
TableIds(owners) == { owners[p].touch_id : p \in DOMAIN owners }

(* C34: tco_context_touch_event never returns handled for a release event:
   tco_control_handle_touch returns false for a release on every control,
   whoever owns it, so the host is told TCO_UNHANDLED even when the owner
   processed the release, and the table gains no entry. *)
C34_ReleaseNeverHandled ==
    [][ event'.type = SCREEN_EVENT_MTOUCH_RELEASE
        => /\ \A j \in Controls :
                 ~tco_control_handle_touch(m_controls[j], j, event'.type,
                                           event'.touch_id, event'.x, event'.y,
                                           event'.timestamp).ret
           /\ ~handled'
           /\ retCode' = TCO_UNHANDLED
           /\ TableIds(m_touch_owners') = TableIds(m_touch_owners) \ {event'.touch_id}
           /\ Len(m_touch_owners') <= Len(m_touch_owners)
      ]_vars

(* the owner processed a release inside its rectangle and emitted its up
   event, and the host was told that nobody handled the event *)
C34_Witness ==
    /\ event.type = SCREEN_EVENT_MTOUCH_RELEASE
    /\ touchPointOwner \in Controls
    /\ EventInside(touchPointOwner)
    /\ Len(Ups(emitted, touchPointOwner)) = 1
    /\ m_controls[touchPointOwner].m_touchId = NO_TOUCH
    /\ ~handled
    /\ retCode = TCO_UNHANDLED

(* ---------------- key and mouse button events ---------------- *)

IsButton(control) == control.m_type \in {KEY, MOUSEBUTTON}

Owned(control) == control.m_touchId # NO_TOUCH

(* C35: for each Key and each MouseButton control the events it emits
   alternate down, up, down, up, ... starting with a down, and the control is
   owned exactly when the last event it emitted was a down.  Stated step by
   step: an unowned control emits nothing and stays unowned or emits one down
   and becomes owned; an owned control emits nothing and stays owned or emits
   one up of its type and becomes unowned; a configuration session makes it
   emit nothing. *)
C35_DownUpAlternate ==
    [][ \A i \in DOMAIN m_controls :
          IsButton(m_controls[i])
          => LET new == IF ~SessionActive /\ TouchInput(ConfigTouchIds)
                        THEN By(emitted', i)
                        ELSE << >>
             IN  /\ \A k \in DOMAIN new :
                       new[k].cb = CallbackOf(m_controls[i].m_type)
                 /\ (SessionActive \/ ~TouchInput(ConfigTouchIds))
                       => emitted' = emitted
                 /\ IF Owned(m_controls[i])
                    THEN \/ new = << >> /\ Owned(m_controls'[i])
                         \/ /\ Len(new) = 1 /\ new[1].event = "UP"
                            /\ ~Owned(m_controls'[i])
                    ELSE \/ new = << >> /\ ~Owned(m_controls'[i])
                         \/ /\ Len(new) = 1 /\ new[1].event = "DOWN"
                            /\ Owned(m_controls'[i])
      ]_vars

(* a mouse button control that a configuration session has dragged away
   from the left edge emitted its up event at a release after the session
   and is unowned *)
C35_Witness ==
    /\ ~SessionActive
    /\ input = <<[domain |-> "screen", code |-> SCREEN_EVENT_MTOUCH_RELEASE,
                  touch_id |-> 0]>>
    /\ m_controls[1].m_type = MOUSEBUTTON
    /\ m_controls[1].m_x # 0
    /\ Len(By(emitted, 1)) = 1
    /\ By(emitted, 1)[1].event = "UP"
    /\ ~Owned(m_controls[1])

(* ---------------- every touch ends ---------------- *)

(* tco_handle_events for a touch event while no configuration window is
   shown, where time stands still or the event comes late: after more than
   2 * TAP_THRESHOLD *)
LiveNext ==
    \E type \in TouchEventTypes, touch_id \in TouchIds, pos \in Positions,
       timestamp \in {event.timestamp, 2 * TAP_THRESHOLD + Tick} :
        /\ tco_context_touch_event(type, touch_id, pos[1], pos[2], timestamp)
        /\ retCode' = IF handled' THEN TCO_SUCCESS ELSE TCO_UNHANDLED
        /\ input' = InputOf(<<bps_event("screen", type, touch_id, pos[1],
                                        pos[2], timestamp)>>)
        /\ UNCHANGED <<m_configWindow, m_user_control_path, files, fault, saved>>

(* the event dispatched last reports that the finger with the touch id was
   lifted *)
Released(t) ==
    event.type = SCREEN_EVENT_MTOUCH_RELEASE /\ event.touch_id = t

(* Touch dispatch where the screen goes on reporting the lifting of every
   finger.  The release of a touch id can be delivered in every state, so
   this is what weak fairness of the release step of each touch id amounts
   to; it is written on the event dispatched last. *)
LiveSpec ==
    /\ Init
    /\ [][LiveNext]_vars
    /\ \A t \in TouchIds : []<>Released(t)

(* a control handles the touch id *)
Handled(t) == \E c \in Controls : m_controls[c].m_touchId = t

(* C36: with no configuration session, when the release of every touch id
   that went down is delivered, every control that handles a touch id becomes
   unowned and the entry of the touch id leaves the table; once only release
   events are delivered, the table becomes empty and all controls stay
   unowned. *)
C36_EveryTouchEnds ==
    /\ \A t \in TouchIds :
          Handled(t) ~> (~Handled(t) /\ OwnerEntries(m_touch_owners, t) = {})
    /\ (<>[](event.type = SCREEN_EVENT_MTOUCH_RELEASE))
          => <>[](/\ m_touch_owners = << >>
                  /\ \A c \in Controls : ~Owned(m_controls[c]))

(* the last of two fingers was lifted outside the control that handled it:
   the control emitted its up event, no control is owned and the table is
   empty *)
C36_Witness ==
    /\ event.type = SCREEN_EVENT_MTOUCH_RELEASE
    /\ Len(m_controls) = 2
    /\ touchPointOwner \in Controls
    /\ ~EventInside(touchPointOwner)
    /\ Len(Ups(emitted, touchPointOwner)) = 1
    /\ \A c \in Controls : ~Owned(m_controls[c])
    /\ m_touch_owners = << >>

(* ---------------- one period of a touch screen control ---------------- *)

(* what m_handleTouchScreenFunc(x, y, tap, hold) reported *)
IsTap(e) == e.cb = "touchscreen" /\ e.tap = 1 /\ e.hold = 0
IsHold(e) == e.cb = "touchscreen" /\ e.tap = 0 /\ e.hold = 1
IsMove(e) == e.cb = "touchscreen" /\ e.tap = 0 /\ e.hold = 0

(* C37: a touch screen control reports at most one event per touch event,
   each a move, a hold or a tap.  A move leaves the control owned in move
   mode and is never reported in hold; a hold is reported out of move mode
   only and leaves the control owned in hold; in hold nothing more is
   reported; a tap is reported at a release only and ends the ownership.
   Both flags last as long as the control stays owned and are never true
   together.  By induction over the period the reports are moves with at
   most one tap at the release, or one hold, or one tap, or nothing. *)
C37_MoveHoldTapExclude ==
    [][ \A i \in DOMAIN m_controls : m_controls[i].m_type = TOUCHSCREEN
          => LET c   == m_controls[i]
                 d   == m_controls'[i]
                 new == By(emitted', i)
             IN  /\ Len(new) <= 1
                 /\ \A k \in DOMAIN new :
                       IsTap(new[k]) \/ IsHold(new[k]) \/ IsMove(new[k])
                 /\ ~(d.m_touchScreenInMoveEvent /\ d.m_touchScreenInHoldEvent)
                 /\ c.m_touchScreenInHoldEvent => new = << >>
                 /\ (Owned(c) /\ Owned(d))
                       => /\ c.m_touchScreenInHoldEvent => d.m_touchScreenInHoldEvent
                          /\ c.m_touchScreenInMoveEvent => d.m_touchScreenInMoveEvent
                 /\ \A k \in DOMAIN new :
                       /\ IsMove(new[k])
                             => /\ Owned(c) /\ Owned(d)
                                /\ d.m_touchScreenInMoveEvent
                       /\ IsHold(new[k])
                             => /\ Owned(c) /\ Owned(d)
                                /\ ~c.m_touchScreenInMoveEvent
                                /\ d.m_touchScreenInHoldEvent
                       /\ IsTap(new[k])
                             => /\ event'.type = SCREEN_EVENT_MTOUCH_RELEASE
                                /\ Owned(c) /\ ~Owned(d) ]_vars

(* the touch screen control owns a touch in move mode and reported one more
   move *)
C37_Witness ==
    /\ Len(m_controls) = 1
    /\ m_controls[1].m_type = TOUCHSCREEN
    /\ Owned(m_controls[1])
    /\ m_controls[1].m_touchScreenInMoveEvent
    /\ ~m_controls[1].m_touchScreenInHoldEvent
    /\ Len(emitted) = 1
    /\ IsMove(emitted[1])
    /\ distance(m_controls[1], event.x, event.y) <= JITTER_THRESHOLD

(* ---------------- the anchor of a touch area ---------------- *)

(* m_state.touch_area.m_last_x and m_last_y *)
Anchor(control) == <<control.m_last_x, control.m_last_y>>

(* the (dx, dy) pairs control i handed to m_handleTouchFunc *)
Pairs(out, i) == SelectSeq(out, LAMBDA e : e.ctl = i /\ e.cb = "touch")

(* the event being dispatched in this step is a release that control i
   reports as a tap when it lies inside *)
QuickRelease(i) ==
    /\ event'.type = SCREEN_EVENT_MTOUCH_RELEASE
    /\ event'.timestamp - m_controls[i].m_touchDownTime < TAP_THRESHOLD

(* The anchor of touch area i through one touch event.  Accepting a touch
   puts the anchor at its position and reports no pair.  While the control
   handles the touch id of the event it reports at most one pair, never
   (0, 0), which is the way the anchor went; without a pair the anchor stays;
   the anchor is the position of the event where anchored holds and is
   unchanged where it does not. *)
AnchorFollows(i, anchored) ==
    LET c     == m_controls[i]
        d     == m_controls'[i]
        new   == Pairs(emitted', i)
        at    == <<event'.x, event'.y>>
        shift == <<d.m_last_x - c.m_last_x, d.m_last_y - c.m_last_y>>
    IN  /\ (~Owned(c) /\ Owned(d)) => (new = << >> /\ Anchor(d) = at)
        /\ Owns(i)
              => /\ Len(new) <= 1
                 /\ \A k \in DOMAIN new :
                       /\ <<new[k].a, new[k].b>> # <<0, 0>>
                       /\ <<new[k].a, new[k].b>> = shift
                 /\ new = << >> => shift = <<0, 0>>
                 /\ Anchor(d) = IF anchored THEN at ELSE Anchor(c)

(* C38 as stated: the anchor of a touch area follows the in-bounds events
   that are not taps, and no others, so that the pairs it reports add up to
   the last such position minus the position where the touch was accepted;
   no pair is (0, 0). *)
C38_AnchorFollowsInBounds ==
    [][ \A i \in DOMAIN m_controls : m_controls[i].m_type = TOUCHAREA
          => AnchorFollows(i, InsideNext(i) /\ ~QuickRelease(i)) ]_vars

(* C38: the anchor of a touch area follows every event of its touch id that
   is not a tap: those inside the rectangle and the one outside it that ends
   the ownership; the pairs it reports add up to the last such position
   minus the position where the touch was accepted; no pair is (0, 0). *)
C38_AnchorFollowsProcessed ==
    [][ \A i \in DOMAIN m_controls : m_controls[i].m_type = TOUCHAREA
          => AnchorFollows(i, ~(InsideNext(i) /\ QuickRelease(i))) ]_vars

(* the touch area lost its touch to an event outside the rectangle and
   reported the way there from the anchor *)
C38_Witness ==
    /\ Len(m_controls) = 1
    /\ m_controls[1].m_type = TOUCHAREA
    /\ ~Owned(m_controls[1])
    /\ touchPointOwner = 1
    /\ ~EventInside(1)
    /\ Len(Pairs(emitted, 1)) = 1
    /\ Anchor(m_controls[1]) = <<event.x, event.y>>

(* ---------------- the drag anchor between invocations ---------------- *)

(* m_startPos and m_endPos of the configuration window agree *)
PositionsAgree ==
    m_configWindow[1].m_startPos = m_configWindow[1].m_endPos

(* C39: whenever an invocation leaves a configuration session behind, its
   start position equals its current position: on entry and after every
   event of the session, all of which return without failure; and an
   invocation in a session with no event, or with a touch event of a touch
   id other than 0, leaves every control and the session as they were. *)
C39_AnchorCaughtUp ==
    [][ /\ SessionActive' => PositionsAgree'
        /\ (SessionActive /\ SessionActive') => retCode' # TCO_FAILURE
        /\ (/\ SessionActive
            /\ \/ tco_handle_events(NULL, SurfaceSize)
               \/ TouchInput(ConfigTouchIds \ {0}))
           => /\ m_controls' = m_controls
              /\ m_configWindow' = m_configWindow ]_vars

(* the session was invoked with no event while it was dragging a control
   that had already left its place *)
C39_Witness ==
    /\ Dragging
    /\ input = NULL
    /\ retCode = TCO_SUCCESS
    /\ PositionsAgree
    /\ m_configWindow[1].m_startPos # <<0, 0>>
    /\ m_controls[m_configWindow[1].m_selected].m_x > 0

(* ---------------- what a session leaves alone ---------------- *)

(* the control with its place put back to that of another *)
PlacedAs(control, other) ==
    [control EXCEPT !.m_x = other.m_x, !.m_y = other.m_y]

(* C40: an event handled while a configuration session is active changes
   nothing of the controls but m_x and m_y of the control that was selected
   when the event arrived: the number and the order of the controls, every
   other field of every control (width, height, type, id, properties) and the
   rectangles of the controls that are not selected stay as they were. *)
C40_SessionMovesSelectedOnly ==
    [][ SessionActive
          => /\ DOMAIN m_controls' = DOMAIN m_controls
             /\ \A i \in DOMAIN m_controls :
                   /\ PlacedAs(m_controls'[i], m_controls[i]) = m_controls[i]
                   /\ i # m_configWindow[1].m_selected
                         => m_controls'[i] = m_controls[i] ]_vars

(* the session dragged the first of two controls away from its place; the
   second is where the layout put it *)
C40_Witness ==
    /\ Dragging
    /\ Len(m_controls) = 2
    /\ m_configWindow[1].m_selected = 1
    /\ <<m_controls[1].m_x, m_controls[1].m_y>> # <<LeftRect[1], LeftRect[2]>>
    /\ <<m_controls[1].m_width, m_controls[1].m_height>> = <<LeftRect[3], LeftRect[4]>>
    /\ Rectangle(m_controls[2]) = RightRect

====
